---------------------------- MODULE Spec2Model ----------------------------
(***************************************************************************)
(* Register-level driver of the LIS3DHH accelerometer (lis3dhh_reg.c).     *)
(*                                                                         *)
(* The device is a bank of 8-bit registers behind a transport (I2C/SPI)    *)
(* that the caller injects through the context.  Every accessor of the    *)
(* driver is one action: it reads the owning register (or a fixed block),  *)
(* decodes or modifies one bitfield and, for a setter, writes the byte     *)
(* back.  The state keeps the device registers and a record of the last    *)
(* accessor call: what it was called with, what it put on the bus, what    *)
(* it returned and what it stored in the caller's output.                  *)
(*                                                                         *)
(* The register addresses, the bitfield layouts and the enumerator values  *)
(* come from lis3dhh_reg.h (the datasheet's register map).                 *)
(***************************************************************************)
EXTENDS Integers, Sequences, FiniteSets, TLC

VARIABLES
  dev,        \* device registers: address -> byte
  pre,        \* device registers when the last accessor call started
  op,         \* name of the last accessor called ("none" before the first)
  arg,        \* <<val>> of the last call when it takes a value, else <<>>
  ret,        \* status returned by the last call
  out,        \* what the last call stored in the caller's output (<<>>: nothing)
  trace,      \* transport transactions the last call issued, in order, each
              \* with the status the transport answered
  lastSet,    \* setter name -> <<val>> of its last call that returned 0 (<<>>: none)
  calls,      \* number of accessor calls made so far
  ctxPassed,  \* the context the last call was given: "NULL" or "ctx"
  transport,  \* "faulty": transactions may fail, ctx may be NULL; "faithful"
  thr,        \* concurrent callers: caller -> the setter call it is in, where it
              \* stands in it (pc), the register image on its stack, its status
  sched       \* the transactions of the concurrent callers in the order the
              \* transport served them: <<caller, "read" or "write">>

vars ==
  <<dev, pre, op, arg, ret, out, trace, lastSet, calls, ctxPassed, transport,
    thr, sched>>

-----------------------------------------------------------------------------
(* Bounds of the exploration.                                              *)

\* accessor calls explored behind a transport that may fail
MaxCalls == 1
\* accessor calls explored in sequence behind a faithful transport
MaxSeq == 2

\* non-zero status codes the injected transport returns on failure
FailCodes == {-7, 3}
\* contents an uninitialised stack byte may have when a read did not fill it
StackBytes == {0, 90, 165, 255}
\* values callers pass to the uint8_t setters
U8Args == {0, 1, 254}
\* fill bytes of the device images the exploration starts from
ImageBytes == {0, 90, 165, 255}
\* fill bytes of the device images of the faithful-transport exploration
SeqImageBytes == {0, 165}
\* bytes the temperature output registers are sampled from
TempBytes == {0, 1, 15, 16, 25, 127, 128, 144, 240, 255}
\* contents the device itself gives a register between two calls
DeviceBytes == {0, 15, 240}
\* 6-byte contents of the acceleration output block OUT_X_L_XL .. OUT_Z_H_XL
AccelBlocks ==
  { <<0, 1, 0, 2, 0, 3>>, <<255, 255, 0, 128, 255, 127>>, <<1, 0, 0, 0, 0, 0>>,
    <<0, 0, 0, 0, 0, 0>>, <<0, 1, 0, 0, 0, 0>>, <<0, 0, 52, 18, 0, 0>>,
    <<0, 0, 0, 0, 205, 171>>, <<0, 1, 0, 2, 0, 131>>, <<0, 1, 0, 130, 0, 3>>,
    <<0, 129, 0, 2, 0, 3>>, <<53, 3, 0, 0, 0, 0>> }

-----------------------------------------------------------------------------
(* Register map (lis3dhh_reg.h).                                           *)

LIS3DHH_WHO_AM_I == 15
LIS3DHH_CTRL_REG1 == 32
LIS3DHH_INT1_CTRL == 33
LIS3DHH_INT2_CTRL == 34
LIS3DHH_CTRL_REG4 == 35
LIS3DHH_CTRL_REG5 == 36
LIS3DHH_OUT_TEMP_L == 37
LIS3DHH_OUT_TEMP_H == 38
LIS3DHH_STATUS == 39
LIS3DHH_OUT_X_L_XL == 40
LIS3DHH_OUT_Z_H_XL == 45
LIS3DHH_FIFO_CTRL == 46
LIS3DHH_FIFO_SRC == 47

Regs == {LIS3DHH_WHO_AM_I} \cup (LIS3DHH_CTRL_REG1 .. LIS3DHH_FIFO_SRC)

\* bitfield layouts: field -> <<position of its least significant bit, width>>
lis3dhh_ctrl_reg1_t ==
  [ bdu |-> <<0, 1>>, drdy_pulse |-> <<1, 1>>, sw_reset |-> <<2, 1>>,
    boot |-> <<3, 1>>, not_used_01 |-> <<4, 2>>, if_add_inc |-> <<6, 1>>,
    norm_mod_en |-> <<7, 1>> ]

lis3dhh_int1_ctrl_t ==
  [ not_used_01 |-> <<0, 2>>, int1_ext |-> <<2, 1>>, int1_fth |-> <<3, 1>>,
    int1_fss5 |-> <<4, 1>>, int1_ovr |-> <<5, 1>>, int1_boot |-> <<6, 1>>,
    int1_drdy |-> <<7, 1>> ]

lis3dhh_int2_ctrl_t ==
  [ not_used_01 |-> <<0, 3>>, int2_fth |-> <<3, 1>>, int2_fss5 |-> <<4, 1>>,
    int2_ovr |-> <<5, 1>>, int2_boot |-> <<6, 1>>, int2_drdy |-> <<7, 1>> ]

lis3dhh_ctrl_reg4_t ==
  [ off_tcomp_en |-> <<0, 1>>, fifo_en |-> <<1, 1>>, pp_od |-> <<2, 2>>,
    st |-> <<4, 2>>, dsp |-> <<6, 2>> ]

lis3dhh_ctrl_reg5_t ==
  [ fifo_spi_hs_on |-> <<0, 1>>, not_used_01 |-> <<1, 7>> ]

lis3dhh_status_t ==
  [ xda |-> <<0, 1>>, yda |-> <<1, 1>>, zda |-> <<2, 1>>, zyxda |-> <<3, 1>>,
    xor |-> <<4, 1>>, yor |-> <<5, 1>>, zor |-> <<6, 1>>, zyxor |-> <<7, 1>> ]

lis3dhh_fifo_ctrl_t ==
  [ fth |-> <<0, 5>>, fmode |-> <<5, 3>> ]

lis3dhh_fifo_src_t ==
  [ fss |-> <<0, 6>>, ovrn |-> <<6, 1>>, fth |-> <<7, 1>> ]

\* enumerators (lis3dhh_reg.h)
LIS3DHH_POWER_DOWN == 0
LIS3DHH_1kHz1 == 1
lis3dhh_norm_mod_en_t == {LIS3DHH_POWER_DOWN, LIS3DHH_1kHz1}

LIS3DHH_ST_DISABLE == 0
LIS3DHH_ST_POSITIVE == 1
LIS3DHH_ST_NEGATIVE == 2
lis3dhh_st_t == {LIS3DHH_ST_DISABLE, LIS3DHH_ST_POSITIVE, LIS3DHH_ST_NEGATIVE}

LIS3DHH_LINEAR_PHASE_440Hz == 0
LIS3DHH_LINEAR_PHASE_235Hz == 1
LIS3DHH_NO_LINEAR_PHASE_440Hz == 2
LIS3DHH_NO_LINEAR_PHASE_235Hz == 3
lis3dhh_dsp_t ==
  { LIS3DHH_LINEAR_PHASE_440Hz, LIS3DHH_LINEAR_PHASE_235Hz,
    LIS3DHH_NO_LINEAR_PHASE_440Hz, LIS3DHH_NO_LINEAR_PHASE_235Hz }

LIS3DHH_LATCHED == 0
LIS3DHH_PULSED == 1
lis3dhh_drdy_pulse_t == {LIS3DHH_LATCHED, LIS3DHH_PULSED}

LIS3DHH_PIN_AS_INTERRUPT == 0
LIS3DHH_PIN_AS_TRIGGER == 1
lis3dhh_int1_ext_t == {LIS3DHH_PIN_AS_INTERRUPT, LIS3DHH_PIN_AS_TRIGGER}

LIS3DHH_ALL_PUSH_PULL == 0
LIS3DHH_INT1_OD_INT2_PP == 1
LIS3DHH_INT1_PP_INT2_OD == 2
LIS3DHH_ALL_OPEN_DRAIN == 3
lis3dhh_pp_od_t ==
  { LIS3DHH_ALL_PUSH_PULL, LIS3DHH_INT1_OD_INT2_PP, LIS3DHH_INT1_PP_INT2_OD,
    LIS3DHH_ALL_OPEN_DRAIN }

LIS3DHH_BYPASS_MODE == 0
LIS3DHH_FIFO_MODE == 1
LIS3DHH_STREAM_TO_FIFO_MODE == 3
LIS3DHH_BYPASS_TO_STREAM_MODE == 4
LIS3DHH_DYNAMIC_STREAM_MODE == 6
lis3dhh_fmode_t ==
  { LIS3DHH_BYPASS_MODE, LIS3DHH_FIFO_MODE, LIS3DHH_STREAM_TO_FIFO_MODE,
    LIS3DHH_BYPASS_TO_STREAM_MODE, LIS3DHH_DYNAMIC_STREAM_MODE }

-----------------------------------------------------------------------------
(* C arithmetic the driver relies on.                                      *)

\* value of a bitfield <<lsb, width>> of a register byte (x = reg.field)
ReadField(byte, f) == (byte \div (2 ^ f[1])) % (2 ^ f[2])

mutant_write_field_no_clear(byte, f, val) ==
  LET new == (val % (2 ^ f[2])) * (2 ^ f[1])
      Or(k) == IF ReadField(byte, <<k, 1>>) = 1 \/ ReadField(new, <<k, 1>>) = 1
               THEN 2 ^ k ELSE 0
  IN  Or(0) + Or(1) + Or(2) + Or(3) + Or(4) + Or(5) + Or(6) + Or(7)

mutant_write_field_drop_upper(byte, f, val) ==
  (byte % (2 ^ f[1])) + ((val % (2 ^ f[2])) * (2 ^ f[1]))

\* the byte with bitfield f assigned val (reg.field = val): the value is
\* truncated to the field's width, the other bits keep their content
WriteField(byte, f, val) ==
  byte + ((val % (2 ^ f[2])) - ReadField(byte, f)) * (2 ^ f[1])

\* conversion of an int to int16_t (two's complement, modulo 2^16)
ToInt16(x) ==
  LET m == x % 65536 IN IF m >= 32768 THEN m - 65536 ELSE m

\* C integer division: the quotient is truncated toward zero
CDiv(a, b) == IF a >= 0 THEN a \div b ELSE -((-a) \div b)

-----------------------------------------------------------------------------
(* Transport.                                                              *)

mutant_read_cached(reg, len, status, buf) ==
  IF status = 0
  THEN [i \in 1..len |-> IF calls > 0 THEN pre[reg + i - 1] ELSE dev[reg + i - 1]]
  ELSE buf

\* The injected ctx->read_reg of a register-emulating transport: with status
\* 0 it fills the buffer from the device, auto-incrementing the address; with
\* a failure status it leaves the buffer as it found it.
ctx_read_reg(reg, len, status, buf) ==
  IF status = 0 THEN [i \in 1..len |-> dev[reg + i - 1]] ELSE buf

\* The injected ctx->write_reg: with status 0 the device takes the byte.
ctx_write_reg(reg, data, status) ==
  IF status = 0 THEN [dev EXCEPT ![reg] = data[1]] ELSE dev

mutant_read_reg_null(ctx, reg, len, status, buf) ==
  [ ret  |-> status,
    data |-> ctx_read_reg(reg, len, status, buf),
    bus  |-> << [kind |-> "read", reg |-> reg, len |-> len, status |-> status] >> ]

\* lis3dhh_read_reg: -1 and no transaction for a NULL ctx, else the status of
\* ctx->read_reg.  `status` is what the transport answers, `buf` the content
\* of the caller's buffer before the call.
lis3dhh_read_reg(ctx, reg, len, status, buf) ==
  IF ctx = "NULL"
  THEN [ret |-> -1, data |-> buf, bus |-> << >>]
  ELSE [ ret  |-> status,
         data |-> ctx_read_reg(reg, len, status, buf),
         bus  |-> << [kind |-> "read", reg |-> reg, len |-> len, status |-> status] >> ]

\* lis3dhh_write_reg: -1 and no transaction for a NULL ctx, else the status
\* of ctx->write_reg.
lis3dhh_write_reg(ctx, reg, data, status) ==
  IF ctx = "NULL"
  THEN [ret |-> -1, dev |-> dev, bus |-> << >>]
  ELSE [ ret |-> status,
         dev |-> ctx_write_reg(reg, data, status),
         bus |-> << [kind |-> "write", reg |-> reg, len |-> Len(data),
                     status |-> status] >> ]

\* what one call may meet: the context the caller passes and the status the
\* transport answers to the read
ReadScenarios ==
  IF transport = "faithful"
  THEN { [ctx |-> "ctx", rs |-> 0] }
  ELSE { [ctx |-> "NULL", rs |-> 0] }
         \cup { [ctx |-> "ctx", rs |-> s] : s \in {0} \cup FailCodes }

\* the status the transport answers to the write that follows a read
WriteStatuses == IF transport = "faithful" THEN {0} ELSE {0} \cup FailCodes

\* contents the accessor's local buffer of n bytes may have before the read
StackBufs(n) == { [i \in 1..n |-> b] : b \in StackBytes }

CallLimit == IF transport = "faithful" THEN MaxSeq ELSE MaxCalls

-----------------------------------------------------------------------------
(* The accessor patterns.                                                  *)

mutant_set_write_always(ctx, reg, f, val, rs, ws, buf) ==
  LET rd == lis3dhh_read_reg(ctx, reg, 1, rs, buf)
      wr == lis3dhh_write_reg(ctx, reg, << WriteField(rd.data[1], f, val) >>, ws)
  IN  [ret |-> IF rd.ret = 0 THEN wr.ret ELSE rd.ret, dev |-> wr.dev,
       bus |-> rd.bus \o wr.bus]

mutant_set_whole_byte(ctx, reg, f, val, rs, ws, buf) ==
  LET rd == lis3dhh_read_reg(ctx, reg, 1, rs, buf)
      wr == lis3dhh_write_reg(ctx, reg, << (val % (2 ^ f[2])) * (2 ^ f[1]) >>, ws)
  IN  IF rd.ret = 0
      THEN [ret |-> wr.ret, dev |-> wr.dev, bus |-> rd.bus \o wr.bus]
      ELSE [ret |-> rd.ret, dev |-> dev, bus |-> rd.bus]

mutant_set_status_flag(ctx, reg, f, val, rs, ws, buf) ==
  LET rd == lis3dhh_read_reg(ctx, reg, 1, rs, buf)
      wr == lis3dhh_write_reg(ctx, reg, << WriteField(rd.data[1], f, val) >>, ws)
  IN  IF rd.ret = 0
      THEN [ret |-> IF wr.ret = 0 THEN 0 ELSE -1, dev |-> wr.dev,
            bus |-> rd.bus \o wr.bus]
      ELSE [ret |-> rd.ret, dev |-> dev, bus |-> rd.bus]

mutant_set_range_checked(ctx, reg, f, val, rs, ws, buf) ==
  LET rd == lis3dhh_read_reg(ctx, reg, 1, rs, buf)
      wr == lis3dhh_write_reg(ctx, reg, << WriteField(rd.data[1], f, val) >>, ws)
  IN  IF val >= 2 ^ f[2]
      THEN [ret |-> -1, dev |-> dev, bus |-> << >>]
      ELSE IF rd.ret = 0
      THEN [ret |-> wr.ret, dev |-> wr.dev, bus |-> rd.bus \o wr.bus]
      ELSE [ret |-> rd.ret, dev |-> dev, bus |-> rd.bus]

mutant_set_retry_write(ctx, reg, f, val, rs, ws, buf) ==
  LET rd == lis3dhh_read_reg(ctx, reg, 1, rs, buf)
      wr == lis3dhh_write_reg(ctx, reg, << WriteField(rd.data[1], f, val) >>, ws)
  IN  IF rd.ret = 0
      THEN [ret |-> wr.ret, dev |-> wr.dev,
            bus |-> IF wr.ret = 0 THEN rd.bus \o wr.bus
                                  ELSE rd.bus \o wr.bus \o wr.bus]
      ELSE [ret |-> rd.ret, dev |-> dev, bus |-> rd.bus]

mutant_set_accumulate(ctx, reg, f, val, rs, ws, buf) ==
  LET rd == lis3dhh_read_reg(ctx, reg, 1, rs, buf)
      wr == lis3dhh_write_reg(ctx, reg,
              << WriteField(rd.data[1], f, ReadField(rd.data[1], f) + val) >>, ws)
  IN  IF rd.ret = 0
      THEN [ret |-> wr.ret, dev |-> wr.dev, bus |-> rd.bus \o wr.bus]
      ELSE [ret |-> rd.ret, dev |-> dev, bus |-> rd.bus]

\* Body of every lis3dhh_*_set: read the owning register; only if the read
\* returned 0, assign the field in the image and write the image back.
set_field(ctx, reg, f, val, rs, ws, buf) ==
  LET rd == lis3dhh_read_reg(ctx, reg, 1, rs, buf)
      wr == lis3dhh_write_reg(ctx, reg, << WriteField(rd.data[1], f, val) >>, ws)
  IN  IF rd.ret = 0
      THEN [ret |-> wr.ret, dev |-> wr.dev, bus |-> rd.bus \o wr.bus]
      ELSE [ret |-> rd.ret, dev |-> dev, bus |-> rd.bus]

mutant_get_short_circuit(ctx, reg, f, rs, buf) ==
  LET rd == lis3dhh_read_reg(ctx, reg, 1, rs, buf)
  IN  [ret |-> rd.ret,
       val |-> IF rd.ret = 0 THEN << ReadField(rd.data[1], f) >> ELSE << >>,
       bus |-> rd.bus]

mutant_get_skip_on_bus_error(ctx, reg, f, rs, buf) ==
  LET rd == lis3dhh_read_reg(ctx, reg, 1, rs, buf)
  IN  [ret |-> rd.ret,
       val |-> IF rd.bus # << >> /\ rd.ret # 0 THEN << >>
               ELSE << ReadField(rd.data[1], f) >>,
       bus |-> rd.bus]

mutant_get_reads_twice(ctx, reg, f, rs, buf) ==
  LET rd == lis3dhh_read_reg(ctx, reg, 1, rs, buf)
  IN  [ret |-> rd.ret, val |-> << ReadField(rd.data[1], f) >>,
       bus |-> rd.bus \o rd.bus]

\* Body of every lis3dhh_*_get of a field: read the owning register into the
\* local image, then store the field whatever the read returned.
get_field(ctx, reg, f, rs, buf) ==
  LET rd == lis3dhh_read_reg(ctx, reg, 1, rs, buf)
  IN  [ret |-> rd.ret, val |-> << ReadField(rd.data[1], f) >>, bus |-> rd.bus]

mutant_get_register_clears(ctx, reg, rs) ==
  LET rd == lis3dhh_read_reg(ctx, reg, 1, rs, << >>)
  IN  [ret |-> rd.ret, val |-> IF rd.ret = 0 THEN rd.data ELSE << 0 >>,
       bus |-> rd.bus]

\* Body of the getters that hand the caller's buffer to the read (device_id,
\* status, fifo_status): the driver stores nothing itself.
get_register(ctx, reg, rs) ==
  LET rd == lis3dhh_read_reg(ctx, reg, 1, rs, << >>)
  IN  [ret |-> rd.ret, val |-> rd.data, bus |-> rd.bus]

\* The two transport calls of a lis3dhh_*_set, for callers that interleave:
\* the read into the local image, and the part under if (ret == 0), the
\* assignment of the field in that image and its write.
set_field_read(ctx, reg, rs, buf) == lis3dhh_read_reg(ctx, reg, 1, rs, buf)

mutant_set_field_write_fresh(ctx, reg, f, val, img, ws) ==
  lis3dhh_write_reg(ctx, reg, << WriteField(dev[reg], f, val) >>, ws)

set_field_write(ctx, reg, f, val, img, ws) ==
  lis3dhh_write_reg(ctx, reg, << WriteField(img, f, val) >>, ws)

\* A call of a setter: the driver's part is set_field, the scenario is the
\* caller's context and the transport's answers.  The local image is read
\* only after a successful read, so its prior content plays no part.
Setter(name, reg, f, val) ==
  /\ calls < CallLimit
  /\ \E sc \in ReadScenarios :
     \E r \in { set_field(sc.ctx, reg, f, val, sc.rs, ws, << 0 >>) :
                   ws \in WriteStatuses } :
       /\ ctxPassed' = sc.ctx
       /\ dev' = r.dev
       /\ ret' = r.ret
       /\ trace' = r.bus
       /\ lastSet' = IF r.ret = 0 THEN [lastSet EXCEPT ![name] = << val >>]
                                  ELSE lastSet
  /\ pre' = dev
  /\ op' = name
  /\ arg' = << val >>
  /\ out' = << >>
  /\ calls' = calls + 1
  /\ UNCHANGED <<transport, thr, sched>>

\* A call of a getter of a plain field.
Getter(name, reg, f) ==
  /\ calls < CallLimit
  /\ \E sc \in ReadScenarios :
     \E r \in { get_field(sc.ctx, reg, f, sc.rs, buf) : buf \in StackBufs(1) } :
       /\ ctxPassed' = sc.ctx
       /\ ret' = r.ret
       /\ out' = r.val
       /\ trace' = r.bus
  /\ pre' = dev
  /\ op' = name
  /\ arg' = << >>
  /\ calls' = calls + 1
  /\ UNCHANGED <<dev, lastSet, transport, thr, sched>>

\* A call of a getter that decodes its field through a switch; switch maps
\* each value of the field to the enumerator stored for it.
EnumGetter(name, reg, f, switch) ==
  /\ calls < CallLimit
  /\ \E sc \in ReadScenarios :
     \E r \in { get_field(sc.ctx, reg, f, sc.rs, buf) : buf \in StackBufs(1) } :
       /\ ctxPassed' = sc.ctx
       /\ ret' = r.ret
       /\ out' = IF r.val = << >> THEN << >> ELSE << switch[r.val[1]] >>
       /\ trace' = r.bus
  /\ pre' = dev
  /\ op' = name
  /\ arg' = << >>
  /\ calls' = calls + 1
  /\ UNCHANGED <<dev, lastSet, transport, thr, sched>>

\* A call of a getter of a whole register.
RegisterGetter(name, reg) ==
  /\ calls < CallLimit
  /\ \E sc \in ReadScenarios :
     \E r \in { get_register(sc.ctx, reg, sc.rs) } :
       /\ ctxPassed' = sc.ctx
       /\ ret' = r.ret
       /\ out' = r.val
       /\ trace' = r.bus
  /\ pre' = dev
  /\ op' = name
  /\ arg' = << >>
  /\ calls' = calls + 1
  /\ UNCHANGED <<dev, lastSet, transport, thr, sched>>

-----------------------------------------------------------------------------
(* Raw outputs and unit conversion.                                        *)

mutant_temperature_shift(buff) ==
  LET w == ToInt16((ToInt16(buff[2]) * 256) + ToInt16(buff[1]))
  IN  ToInt16((w - (w % 16)) \div 16)

mutant_temperature_swapped(buff) ==
  LET w == ToInt16((ToInt16(buff[1]) * 256) + ToInt16(buff[2]))
  IN  ToInt16(CDiv(w, 16))

\* lis3dhh_temperature_raw_get, the decoding of buff[2] (1-based here):
\*   *val = (int16_t)buff[1]; *val = (*val * 256) + (int16_t)buff[0];
\*   *val = (*val / 16);
temperature_raw(buff) ==
  LET v1 == ToInt16(buff[2])
      v2 == ToInt16((v1 * 256) + ToInt16(buff[1]))
  IN  ToInt16(CDiv(v2, 16))

mutant_acceleration_unsigned(buff) ==
  [ i \in 1..3 |-> (buff[2 * i] * 256) + buff[(2 * i) - 1] ]

\* lis3dhh_acceleration_raw_get, the decoding of buff[6]:
\*   val[i] = (int16_t)buff[2i+1]; val[i] = (val[i] * 256) + (int16_t)buff[2i];
acceleration_raw(buff) ==
  [ i \in 1..3 |->
      ToInt16((ToInt16(buff[2 * i]) * 256) + ToInt16(buff[(2 * i) - 1])) ]

mutant_mg_per_1024(lsb) == << lsb * 76, -10 >>

\* lis3dhh_from_lsb_to_mg: (float_t)lsb * 0.076f in IEEE single precision.
\* 0.076f is 10200547 * 2^-27 (= 2490 * 4096 + 1507, split to keep every
\* intermediate below 2^31); the exact product of its 24-bit significand with
\* |lsb| is rounded to 24 significant bits, ties to even.  The result is
\* <<m, e>>, standing for m * 2^e.
lis3dhh_from_lsb_to_mg(lsb) ==
  LET a   == IF lsb < 0 THEN -lsb ELSE lsb
      sgn == IF lsb < 0 THEN -1 ELSE 1
      B   == a * 1507
      H   == (a * 2490) + (B \div 4096)
      L   == B % 4096
      \* the exact product is H * 4096 + L; d bits of it are rounded away
      d   == CHOOSE k \in 0..15 : H < 2 ^ (12 + k) /\ (k = 0 \/ H >= 2 ^ (11 + k))
      q   == IF d <= 12 THEN (H * (2 ^ (12 - d))) + (L \div (2 ^ d))
                        ELSE H \div (2 ^ (d - 12))
      r   == IF d <= 12 THEN L % (2 ^ d)
                        ELSE ((H % (2 ^ (d - 12))) * 4096) + L
      q1  == IF (2 * r > 2 ^ d) \/ (2 * r = 2 ^ d /\ q % 2 = 1) THEN q + 1 ELSE q
  IN  IF lsb = 0 THEN << 0, 0 >>
      ELSE IF q1 = 2 ^ 24 THEN << sgn * (2 ^ 23), (d + 1) - 27 >>
      ELSE << sgn * q1, d - 27 >>

mutant_celsius_no_offset(lsb) == << lsb, 16 >>

\* lis3dhh_from_lsb_to_celsius: ((float_t)lsb / 16.0f) + 25.0f.  Both float
\* operations are exact for an int16_t (the result needs 17 bits of mantissa),
\* so the result is the rational (lsb + 25 * 16) / 16, given as <<num, den>>.
lis3dhh_from_lsb_to_celsius(lsb) == << lsb + (25 * 16), 16 >>

\* lis3dhh_temperature_raw_get: one read of 2 bytes at OUT_TEMP_L into the
\* local buff, decoded whatever the read returned.
lis3dhh_temperature_raw_get ==
  /\ calls < CallLimit
  /\ \E sc \in ReadScenarios :
     \E rd \in { lis3dhh_read_reg(sc.ctx, LIS3DHH_OUT_TEMP_L, 2, sc.rs, buf) :
                    buf \in StackBufs(2) } :
       /\ ctxPassed' = sc.ctx
       /\ ret' = rd.ret
       /\ out' = << temperature_raw(rd.data) >>
       /\ trace' = rd.bus
  /\ pre' = dev
  /\ op' = "lis3dhh_temperature_raw_get"
  /\ arg' = << >>
  /\ calls' = calls + 1
  /\ UNCHANGED <<dev, lastSet, transport, thr, sched>>

\* lis3dhh_acceleration_raw_get: one read of 6 bytes at OUT_X_L_XL into the
\* local buff, decoded into val[0..2] whatever the read returned.
lis3dhh_acceleration_raw_get ==
  /\ calls < CallLimit
  /\ \E sc \in ReadScenarios :
     \E rd \in { lis3dhh_read_reg(sc.ctx, LIS3DHH_OUT_X_L_XL, 6, sc.rs, buf) :
                    buf \in StackBufs(6) } :
       /\ ctxPassed' = sc.ctx
       /\ ret' = rd.ret
       /\ out' = acceleration_raw(rd.data)
       /\ trace' = rd.bus
  /\ pre' = dev
  /\ op' = "lis3dhh_acceleration_raw_get"
  /\ arg' = << >>
  /\ calls' = calls + 1
  /\ UNCHANGED <<dev, lastSet, transport, thr, sched>>

\* raw values a caller converts: the one the last temperature read stored
LsbInputs ==
  IF op = "lis3dhh_temperature_raw_get" THEN { out[1] } ELSE { }

\* A call of lis3dhh_from_lsb_to_celsius on the raw temperature just read:
\* no transaction, no status; the result is kept in out.
from_lsb_to_celsius ==
  /\ \E lsb \in LsbInputs :
       /\ arg' = << lsb >>
       /\ out' = lis3dhh_from_lsb_to_celsius(lsb)
  /\ op' = "lis3dhh_from_lsb_to_celsius"
  /\ trace' = << >>
  /\ UNCHANGED <<dev, pre, ret, lastSet, calls, ctxPassed, transport, thr, sched>>


\* raw values a caller converts: the ones the last acceleration read stored
MgInputs ==
  IF op = "lis3dhh_acceleration_raw_get" THEN { out[i] : i \in 1..3 } ELSE { }

\* A call of lis3dhh_from_lsb_to_mg on a raw acceleration just read: no
\* transaction, no status; the result is kept in out.
from_lsb_to_mg ==
  /\ \E lsb \in MgInputs :
       /\ arg' = << lsb >>
       /\ out' = lis3dhh_from_lsb_to_mg(lsb)
  /\ op' = "lis3dhh_from_lsb_to_mg"
  /\ trace' = << >>
  /\ UNCHANGED <<dev, pre, ret, lastSet, calls, ctxPassed, transport, thr, sched>>

\* The device changing a register on its own between two calls of the driver:
\* STATUS as samples arrive and are overrun, CTRL_REG1 as the boot and reset
\* bits clear themselves.  No driver code runs.
device_update ==
  /\ calls > 0
  /\ calls < CallLimit
  /\ \E r \in {LIS3DHH_STATUS, LIS3DHH_CTRL_REG1}, b \in DeviceBytes :
       /\ b # dev[r]
       /\ dev' = [dev EXCEPT ![r] = b]
  /\ UNCHANGED <<pre, op, arg, ret, out, trace, lastSet, calls, ctxPassed, transport,
                 thr, sched>>
-----------------------------------------------------------------------------
(* The accessors, one action each.                                         *)

lis3dhh_block_data_update_set(val) ==
  Setter("lis3dhh_block_data_update_set", LIS3DHH_CTRL_REG1, lis3dhh_ctrl_reg1_t.bdu, val)

lis3dhh_block_data_update_get ==
  Getter("lis3dhh_block_data_update_get", LIS3DHH_CTRL_REG1, lis3dhh_ctrl_reg1_t.bdu)

lis3dhh_data_rate_set(val) ==
  Setter("lis3dhh_data_rate_set", LIS3DHH_CTRL_REG1, lis3dhh_ctrl_reg1_t.norm_mod_en, val)

\* the switch of lis3dhh_data_rate_get
lis3dhh_data_rate_get_switch(x) ==
  CASE x = LIS3DHH_POWER_DOWN -> LIS3DHH_POWER_DOWN
    [] x = LIS3DHH_1kHz1 -> LIS3DHH_1kHz1
    [] OTHER -> LIS3DHH_POWER_DOWN

lis3dhh_data_rate_get ==
  EnumGetter("lis3dhh_data_rate_get", LIS3DHH_CTRL_REG1, lis3dhh_ctrl_reg1_t.norm_mod_en,
             [x \in 0..255 |-> lis3dhh_data_rate_get_switch(x)])

lis3dhh_xl_data_ready_get ==
  Getter("lis3dhh_xl_data_ready_get", LIS3DHH_STATUS, lis3dhh_status_t.zyxda)

lis3dhh_xl_data_ovr_get ==
  Getter("lis3dhh_xl_data_ovr_get", LIS3DHH_STATUS, lis3dhh_status_t.zyxor)

lis3dhh_device_id_get ==
  RegisterGetter("lis3dhh_device_id_get", LIS3DHH_WHO_AM_I)

lis3dhh_reset_set(val) ==
  Setter("lis3dhh_reset_set", LIS3DHH_CTRL_REG1, lis3dhh_ctrl_reg1_t.sw_reset, val)

lis3dhh_reset_get ==
  Getter("lis3dhh_reset_get", LIS3DHH_CTRL_REG1, lis3dhh_ctrl_reg1_t.sw_reset)

lis3dhh_boot_set(val) ==
  Setter("lis3dhh_boot_set", LIS3DHH_CTRL_REG1, lis3dhh_ctrl_reg1_t.boot, val)

lis3dhh_boot_get ==
  Getter("lis3dhh_boot_get", LIS3DHH_CTRL_REG1, lis3dhh_ctrl_reg1_t.boot)

lis3dhh_self_test_set(val) ==
  Setter("lis3dhh_self_test_set", LIS3DHH_CTRL_REG4, lis3dhh_ctrl_reg4_t.st, val)

\* the switch of lis3dhh_self_test_get
lis3dhh_self_test_get_switch(x) ==
  CASE x = LIS3DHH_ST_DISABLE -> LIS3DHH_ST_DISABLE
    [] x = LIS3DHH_ST_POSITIVE -> LIS3DHH_ST_POSITIVE
    [] x = LIS3DHH_ST_NEGATIVE -> LIS3DHH_ST_NEGATIVE
    [] OTHER -> LIS3DHH_ST_DISABLE

lis3dhh_self_test_get ==
  EnumGetter("lis3dhh_self_test_get", LIS3DHH_CTRL_REG4, lis3dhh_ctrl_reg4_t.st,
             [x \in 0..255 |-> lis3dhh_self_test_get_switch(x)])

lis3dhh_filter_config_set(val) ==
  Setter("lis3dhh_filter_config_set", LIS3DHH_CTRL_REG4, lis3dhh_ctrl_reg4_t.dsp, val)

\* the switch of lis3dhh_filter_config_get
lis3dhh_filter_config_get_switch(x) ==
  CASE x = LIS3DHH_LINEAR_PHASE_440Hz -> LIS3DHH_LINEAR_PHASE_440Hz
    [] x = LIS3DHH_LINEAR_PHASE_235Hz -> LIS3DHH_LINEAR_PHASE_235Hz
    [] x = LIS3DHH_NO_LINEAR_PHASE_440Hz -> LIS3DHH_NO_LINEAR_PHASE_440Hz
    [] x = LIS3DHH_NO_LINEAR_PHASE_235Hz -> LIS3DHH_NO_LINEAR_PHASE_235Hz
    [] OTHER -> LIS3DHH_LINEAR_PHASE_440Hz

lis3dhh_filter_config_get ==
  EnumGetter("lis3dhh_filter_config_get", LIS3DHH_CTRL_REG4, lis3dhh_ctrl_reg4_t.dsp,
             [x \in 0..255 |-> lis3dhh_filter_config_get_switch(x)])

lis3dhh_status_get ==
  RegisterGetter("lis3dhh_status_get", LIS3DHH_STATUS)

lis3dhh_drdy_notification_mode_set(val) ==
  Setter("lis3dhh_drdy_notification_mode_set", LIS3DHH_CTRL_REG1, lis3dhh_ctrl_reg1_t.drdy_pulse, val)

\* the switch of lis3dhh_drdy_notification_mode_get
lis3dhh_drdy_notification_mode_get_switch(x) ==
  CASE x = LIS3DHH_LATCHED -> LIS3DHH_LATCHED
    [] x = LIS3DHH_PULSED -> LIS3DHH_PULSED
    [] OTHER -> LIS3DHH_LATCHED

lis3dhh_drdy_notification_mode_get ==
  EnumGetter("lis3dhh_drdy_notification_mode_get", LIS3DHH_CTRL_REG1, lis3dhh_ctrl_reg1_t.drdy_pulse,
             [x \in 0..255 |-> lis3dhh_drdy_notification_mode_get_switch(x)])

lis3dhh_int1_mode_set(val) ==
  Setter("lis3dhh_int1_mode_set", LIS3DHH_INT1_CTRL, lis3dhh_int1_ctrl_t.int1_ext, val)

\* the switch of lis3dhh_int1_mode_get
lis3dhh_int1_mode_get_switch(x) ==
  CASE x = LIS3DHH_PIN_AS_INTERRUPT -> LIS3DHH_PIN_AS_INTERRUPT
    [] x = LIS3DHH_PIN_AS_TRIGGER -> LIS3DHH_PIN_AS_TRIGGER
    [] OTHER -> LIS3DHH_PIN_AS_INTERRUPT

lis3dhh_int1_mode_get ==
  EnumGetter("lis3dhh_int1_mode_get", LIS3DHH_INT1_CTRL, lis3dhh_int1_ctrl_t.int1_ext,
             [x \in 0..255 |-> lis3dhh_int1_mode_get_switch(x)])

lis3dhh_fifo_threshold_on_int1_set(val) ==
  Setter("lis3dhh_fifo_threshold_on_int1_set", LIS3DHH_INT1_CTRL, lis3dhh_int1_ctrl_t.int1_fth, val)

lis3dhh_fifo_threshold_on_int1_get ==
  Getter("lis3dhh_fifo_threshold_on_int1_get", LIS3DHH_INT1_CTRL, lis3dhh_int1_ctrl_t.int1_fth)

lis3dhh_fifo_full_on_int1_set(val) ==
  Setter("lis3dhh_fifo_full_on_int1_set", LIS3DHH_INT1_CTRL, lis3dhh_int1_ctrl_t.int1_fss5, val)

lis3dhh_fifo_full_on_int1_get ==
  Getter("lis3dhh_fifo_full_on_int1_get", LIS3DHH_INT1_CTRL, lis3dhh_int1_ctrl_t.int1_fss5)

lis3dhh_fifo_ovr_on_int1_set(val) ==
  Setter("lis3dhh_fifo_ovr_on_int1_set", LIS3DHH_INT1_CTRL, lis3dhh_int1_ctrl_t.int1_ovr, val)

lis3dhh_fifo_ovr_on_int1_get ==
  Getter("lis3dhh_fifo_ovr_on_int1_get", LIS3DHH_INT1_CTRL, lis3dhh_int1_ctrl_t.int1_ovr)

lis3dhh_boot_on_int1_set(val) ==
  Setter("lis3dhh_boot_on_int1_set", LIS3DHH_INT1_CTRL, lis3dhh_int1_ctrl_t.int1_boot, val)

lis3dhh_boot_on_int1_get ==
  Getter("lis3dhh_boot_on_int1_get", LIS3DHH_INT1_CTRL, lis3dhh_int1_ctrl_t.int1_boot)

lis3dhh_drdy_on_int1_set(val) ==
  Setter("lis3dhh_drdy_on_int1_set", LIS3DHH_INT1_CTRL, lis3dhh_int1_ctrl_t.int1_drdy, val)

lis3dhh_drdy_on_int1_get ==
  Getter("lis3dhh_drdy_on_int1_get", LIS3DHH_INT1_CTRL, lis3dhh_int1_ctrl_t.int1_drdy)

lis3dhh_fifo_threshold_on_int2_set(val) ==
  Setter("lis3dhh_fifo_threshold_on_int2_set", LIS3DHH_INT2_CTRL, lis3dhh_int2_ctrl_t.int2_fth, val)

lis3dhh_fifo_threshold_on_int2_get ==
  Getter("lis3dhh_fifo_threshold_on_int2_get", LIS3DHH_INT2_CTRL, lis3dhh_int2_ctrl_t.int2_fth)

lis3dhh_fifo_full_on_int2_set(val) ==
  Setter("lis3dhh_fifo_full_on_int2_set", LIS3DHH_INT2_CTRL, lis3dhh_int2_ctrl_t.int2_fss5, val)

lis3dhh_fifo_full_on_int2_get ==
  Getter("lis3dhh_fifo_full_on_int2_get", LIS3DHH_INT2_CTRL, lis3dhh_int2_ctrl_t.int2_fss5)

lis3dhh_fifo_ovr_on_int2_set(val) ==
  Setter("lis3dhh_fifo_ovr_on_int2_set", LIS3DHH_INT2_CTRL, lis3dhh_int2_ctrl_t.int2_ovr, val)

lis3dhh_fifo_ovr_on_int2_get ==
  Getter("lis3dhh_fifo_ovr_on_int2_get", LIS3DHH_INT2_CTRL, lis3dhh_int2_ctrl_t.int2_ovr)

lis3dhh_boot_on_int2_set(val) ==
  Setter("lis3dhh_boot_on_int2_set", LIS3DHH_INT2_CTRL, lis3dhh_int2_ctrl_t.int2_boot, val)

lis3dhh_boot_on_int2_get ==
  Getter("lis3dhh_boot_on_int2_get", LIS3DHH_INT2_CTRL, lis3dhh_int2_ctrl_t.int2_boot)

lis3dhh_drdy_on_int2_set(val) ==
  Setter("lis3dhh_drdy_on_int2_set", LIS3DHH_INT2_CTRL, lis3dhh_int2_ctrl_t.int2_drdy, val)

lis3dhh_drdy_on_int2_get ==
  Getter("lis3dhh_drdy_on_int2_get", LIS3DHH_INT2_CTRL, lis3dhh_int2_ctrl_t.int2_drdy)

lis3dhh_pin_mode_set(val) ==
  Setter("lis3dhh_pin_mode_set", LIS3DHH_CTRL_REG4, lis3dhh_ctrl_reg4_t.pp_od, val)

\* the switch of lis3dhh_pin_mode_get
lis3dhh_pin_mode_get_switch(x) ==
  CASE x = LIS3DHH_ALL_PUSH_PULL -> LIS3DHH_ALL_PUSH_PULL
    [] x = LIS3DHH_INT1_OD_INT2_PP -> LIS3DHH_INT1_OD_INT2_PP
    [] x = LIS3DHH_INT1_PP_INT2_OD -> LIS3DHH_INT1_PP_INT2_OD
    [] x = LIS3DHH_ALL_OPEN_DRAIN -> LIS3DHH_ALL_OPEN_DRAIN
    [] OTHER -> LIS3DHH_ALL_PUSH_PULL

lis3dhh_pin_mode_get ==
  EnumGetter("lis3dhh_pin_mode_get", LIS3DHH_CTRL_REG4, lis3dhh_ctrl_reg4_t.pp_od,
             [x \in 0..255 |-> lis3dhh_pin_mode_get_switch(x)])

lis3dhh_fifo_set(val) ==
  Setter("lis3dhh_fifo_set", LIS3DHH_CTRL_REG4, lis3dhh_ctrl_reg4_t.fifo_en, val)

lis3dhh_fifo_get ==
  Getter("lis3dhh_fifo_get", LIS3DHH_CTRL_REG4, lis3dhh_ctrl_reg4_t.fifo_en)

lis3dhh_fifo_block_spi_hs_set(val) ==
  Setter("lis3dhh_fifo_block_spi_hs_set", LIS3DHH_CTRL_REG5, lis3dhh_ctrl_reg5_t.fifo_spi_hs_on, val)

lis3dhh_fifo_block_spi_hs_get ==
  Getter("lis3dhh_fifo_block_spi_hs_get", LIS3DHH_CTRL_REG5, lis3dhh_ctrl_reg5_t.fifo_spi_hs_on)

lis3dhh_fifo_watermark_set(val) ==
  Setter("lis3dhh_fifo_watermark_set", LIS3DHH_FIFO_CTRL, lis3dhh_fifo_ctrl_t.fth, val)

lis3dhh_fifo_watermark_get ==
  Getter("lis3dhh_fifo_watermark_get", LIS3DHH_FIFO_CTRL, lis3dhh_fifo_ctrl_t.fth)

lis3dhh_fifo_mode_set(val) ==
  Setter("lis3dhh_fifo_mode_set", LIS3DHH_FIFO_CTRL, lis3dhh_fifo_ctrl_t.fmode, val)

mutant_fifo_mode_switch_passthrough(x) == x

\* the switch of lis3dhh_fifo_mode_get
lis3dhh_fifo_mode_get_switch(x) ==
  CASE x = LIS3DHH_BYPASS_MODE -> LIS3DHH_BYPASS_MODE
    [] x = LIS3DHH_FIFO_MODE -> LIS3DHH_FIFO_MODE
    [] x = LIS3DHH_STREAM_TO_FIFO_MODE -> LIS3DHH_STREAM_TO_FIFO_MODE
    [] x = LIS3DHH_BYPASS_TO_STREAM_MODE -> LIS3DHH_BYPASS_TO_STREAM_MODE
    [] x = LIS3DHH_DYNAMIC_STREAM_MODE -> LIS3DHH_DYNAMIC_STREAM_MODE
    [] OTHER -> LIS3DHH_BYPASS_MODE

lis3dhh_fifo_mode_get ==
  EnumGetter("lis3dhh_fifo_mode_get", LIS3DHH_FIFO_CTRL, lis3dhh_fifo_ctrl_t.fmode,
             [x \in 0..255 |-> lis3dhh_fifo_mode_get_switch(x)])

lis3dhh_fifo_status_get ==
  RegisterGetter("lis3dhh_fifo_status_get", LIS3DHH_FIFO_SRC)

lis3dhh_fifo_full_flag_get ==
  Getter("lis3dhh_fifo_full_flag_get", LIS3DHH_FIFO_SRC, lis3dhh_fifo_src_t.fss)

lis3dhh_fifo_ovr_flag_get ==
  Getter("lis3dhh_fifo_ovr_flag_get", LIS3DHH_FIFO_SRC, lis3dhh_fifo_src_t.ovrn)

lis3dhh_fifo_fth_flag_get ==
  Getter("lis3dhh_fifo_fth_flag_get", LIS3DHH_FIFO_SRC, lis3dhh_fifo_src_t.fth)

lis3dhh_auto_add_inc_set(val) ==
  Setter("lis3dhh_auto_add_inc_set", LIS3DHH_CTRL_REG1, lis3dhh_ctrl_reg1_t.if_add_inc, val)

lis3dhh_auto_add_inc_get ==
  Getter("lis3dhh_auto_add_inc_get", LIS3DHH_CTRL_REG1, lis3dhh_ctrl_reg1_t.if_add_inc)

\* the register and bitfield each accessor is documented to target (the
\* "values of <field> in reg <REG>" of its @param val comment)
DocField ==
  "lis3dhh_block_data_update_set" :> << LIS3DHH_CTRL_REG1, lis3dhh_ctrl_reg1_t.bdu >>
  @@ "lis3dhh_block_data_update_get" :> << LIS3DHH_CTRL_REG1, lis3dhh_ctrl_reg1_t.bdu >>
  @@ "lis3dhh_data_rate_set" :> << LIS3DHH_CTRL_REG1, lis3dhh_ctrl_reg1_t.norm_mod_en >>
  @@ "lis3dhh_data_rate_get" :> << LIS3DHH_CTRL_REG1, lis3dhh_ctrl_reg1_t.norm_mod_en >>
  @@ "lis3dhh_xl_data_ready_get" :> << LIS3DHH_STATUS, lis3dhh_status_t.zyxda >>
  @@ "lis3dhh_xl_data_ovr_get" :> << LIS3DHH_STATUS, lis3dhh_status_t.zyxor >>
  @@ "lis3dhh_reset_set" :> << LIS3DHH_CTRL_REG1, lis3dhh_ctrl_reg1_t.sw_reset >>
  @@ "lis3dhh_reset_get" :> << LIS3DHH_CTRL_REG1, lis3dhh_ctrl_reg1_t.sw_reset >>
  @@ "lis3dhh_boot_set" :> << LIS3DHH_CTRL_REG1, lis3dhh_ctrl_reg1_t.boot >>
  @@ "lis3dhh_boot_get" :> << LIS3DHH_CTRL_REG1, lis3dhh_ctrl_reg1_t.boot >>
  @@ "lis3dhh_self_test_set" :> << LIS3DHH_CTRL_REG4, lis3dhh_ctrl_reg4_t.st >>
  @@ "lis3dhh_self_test_get" :> << LIS3DHH_CTRL_REG4, lis3dhh_ctrl_reg4_t.st >>
  @@ "lis3dhh_filter_config_set" :> << LIS3DHH_CTRL_REG4, lis3dhh_ctrl_reg4_t.dsp >>
  @@ "lis3dhh_filter_config_get" :> << LIS3DHH_CTRL_REG4, lis3dhh_ctrl_reg4_t.dsp >>
  @@ "lis3dhh_drdy_notification_mode_set" :> << LIS3DHH_CTRL_REG1, lis3dhh_ctrl_reg1_t.drdy_pulse >>
  @@ "lis3dhh_drdy_notification_mode_get" :> << LIS3DHH_CTRL_REG1, lis3dhh_ctrl_reg1_t.drdy_pulse >>
  @@ "lis3dhh_int1_mode_set" :> << LIS3DHH_INT1_CTRL, lis3dhh_int1_ctrl_t.int1_ext >>
  @@ "lis3dhh_int1_mode_get" :> << LIS3DHH_INT1_CTRL, lis3dhh_int1_ctrl_t.int1_ext >>
  @@ "lis3dhh_fifo_threshold_on_int1_set" :> << LIS3DHH_INT1_CTRL, lis3dhh_int1_ctrl_t.int1_fth >>
  @@ "lis3dhh_fifo_threshold_on_int1_get" :> << LIS3DHH_INT1_CTRL, lis3dhh_int1_ctrl_t.int1_fth >>
  @@ "lis3dhh_fifo_full_on_int1_set" :> << LIS3DHH_INT1_CTRL, lis3dhh_int1_ctrl_t.int1_fss5 >>
  @@ "lis3dhh_fifo_full_on_int1_get" :> << LIS3DHH_INT1_CTRL, lis3dhh_int1_ctrl_t.int1_fss5 >>
  @@ "lis3dhh_fifo_ovr_on_int1_set" :> << LIS3DHH_INT1_CTRL, lis3dhh_int1_ctrl_t.int1_ovr >>
  @@ "lis3dhh_fifo_ovr_on_int1_get" :> << LIS3DHH_INT1_CTRL, lis3dhh_int1_ctrl_t.int1_ovr >>
  @@ "lis3dhh_boot_on_int1_set" :> << LIS3DHH_INT1_CTRL, lis3dhh_int1_ctrl_t.int1_boot >>
  @@ "lis3dhh_boot_on_int1_get" :> << LIS3DHH_INT1_CTRL, lis3dhh_int1_ctrl_t.int1_boot >>
  @@ "lis3dhh_drdy_on_int1_set" :> << LIS3DHH_INT1_CTRL, lis3dhh_int1_ctrl_t.int1_drdy >>
  @@ "lis3dhh_drdy_on_int1_get" :> << LIS3DHH_INT1_CTRL, lis3dhh_int1_ctrl_t.int1_drdy >>
  @@ "lis3dhh_fifo_threshold_on_int2_set" :> << LIS3DHH_INT2_CTRL, lis3dhh_int2_ctrl_t.int2_fth >>
  @@ "lis3dhh_fifo_threshold_on_int2_get" :> << LIS3DHH_INT2_CTRL, lis3dhh_int2_ctrl_t.int2_fth >>
  @@ "lis3dhh_fifo_full_on_int2_set" :> << LIS3DHH_INT2_CTRL, lis3dhh_int2_ctrl_t.int2_fss5 >>
  @@ "lis3dhh_fifo_full_on_int2_get" :> << LIS3DHH_INT2_CTRL, lis3dhh_int2_ctrl_t.int2_fss5 >>
  @@ "lis3dhh_fifo_ovr_on_int2_set" :> << LIS3DHH_INT2_CTRL, lis3dhh_int2_ctrl_t.int2_ovr >>
  @@ "lis3dhh_fifo_ovr_on_int2_get" :> << LIS3DHH_INT2_CTRL, lis3dhh_int2_ctrl_t.int2_ovr >>
  @@ "lis3dhh_boot_on_int2_set" :> << LIS3DHH_INT2_CTRL, lis3dhh_int2_ctrl_t.int2_boot >>
  @@ "lis3dhh_boot_on_int2_get" :> << LIS3DHH_INT2_CTRL, lis3dhh_int2_ctrl_t.int2_boot >>
  @@ "lis3dhh_drdy_on_int2_set" :> << LIS3DHH_INT2_CTRL, lis3dhh_int2_ctrl_t.int2_drdy >>
  @@ "lis3dhh_drdy_on_int2_get" :> << LIS3DHH_INT2_CTRL, lis3dhh_int2_ctrl_t.int2_drdy >>
  @@ "lis3dhh_pin_mode_set" :> << LIS3DHH_CTRL_REG4, lis3dhh_ctrl_reg4_t.pp_od >>
  @@ "lis3dhh_pin_mode_get" :> << LIS3DHH_CTRL_REG4, lis3dhh_ctrl_reg4_t.pp_od >>
  @@ "lis3dhh_fifo_set" :> << LIS3DHH_CTRL_REG4, lis3dhh_ctrl_reg4_t.fifo_en >>
  @@ "lis3dhh_fifo_get" :> << LIS3DHH_CTRL_REG4, lis3dhh_ctrl_reg4_t.fifo_en >>
  @@ "lis3dhh_fifo_block_spi_hs_set" :> << LIS3DHH_CTRL_REG5, lis3dhh_ctrl_reg5_t.fifo_spi_hs_on >>
  @@ "lis3dhh_fifo_block_spi_hs_get" :> << LIS3DHH_CTRL_REG5, lis3dhh_ctrl_reg5_t.fifo_spi_hs_on >>
  @@ "lis3dhh_fifo_watermark_set" :> << LIS3DHH_FIFO_CTRL, lis3dhh_fifo_ctrl_t.fth >>
  @@ "lis3dhh_fifo_watermark_get" :> << LIS3DHH_FIFO_CTRL, lis3dhh_fifo_ctrl_t.fth >>
  @@ "lis3dhh_fifo_mode_set" :> << LIS3DHH_FIFO_CTRL, lis3dhh_fifo_ctrl_t.fmode >>
  @@ "lis3dhh_fifo_mode_get" :> << LIS3DHH_FIFO_CTRL, lis3dhh_fifo_ctrl_t.fmode >>
  @@ "lis3dhh_fifo_full_flag_get" :> << LIS3DHH_FIFO_SRC, lis3dhh_fifo_src_t.fss >>
  @@ "lis3dhh_fifo_ovr_flag_get" :> << LIS3DHH_FIFO_SRC, lis3dhh_fifo_src_t.ovrn >>
  @@ "lis3dhh_fifo_fth_flag_get" :> << LIS3DHH_FIFO_SRC, lis3dhh_fifo_src_t.fth >>
  @@ "lis3dhh_auto_add_inc_set" :> << LIS3DHH_CTRL_REG1, lis3dhh_ctrl_reg1_t.if_add_inc >>
  @@ "lis3dhh_auto_add_inc_get" :> << LIS3DHH_CTRL_REG1, lis3dhh_ctrl_reg1_t.if_add_inc >>

\* the switch of each enumerated getter, as a map from field value to output
EnumSwitch ==
  "lis3dhh_data_rate_get" :> [x \in 0..255 |-> lis3dhh_data_rate_get_switch(x)]
  @@ "lis3dhh_self_test_get" :> [x \in 0..255 |-> lis3dhh_self_test_get_switch(x)]
  @@ "lis3dhh_filter_config_get" :> [x \in 0..255 |-> lis3dhh_filter_config_get_switch(x)]
  @@ "lis3dhh_drdy_notification_mode_get" :> [x \in 0..255 |-> lis3dhh_drdy_notification_mode_get_switch(x)]
  @@ "lis3dhh_int1_mode_get" :> [x \in 0..255 |-> lis3dhh_int1_mode_get_switch(x)]
  @@ "lis3dhh_pin_mode_get" :> [x \in 0..255 |-> lis3dhh_pin_mode_get_switch(x)]
  @@ "lis3dhh_fifo_mode_get" :> [x \in 0..255 |-> lis3dhh_fifo_mode_get_switch(x)]

SetterNames ==
  { "lis3dhh_block_data_update_set",
    "lis3dhh_data_rate_set",
    "lis3dhh_reset_set",
    "lis3dhh_boot_set",
    "lis3dhh_self_test_set",
    "lis3dhh_filter_config_set",
    "lis3dhh_drdy_notification_mode_set",
    "lis3dhh_int1_mode_set",
    "lis3dhh_fifo_threshold_on_int1_set",
    "lis3dhh_fifo_full_on_int1_set",
    "lis3dhh_fifo_ovr_on_int1_set",
    "lis3dhh_boot_on_int1_set",
    "lis3dhh_drdy_on_int1_set",
    "lis3dhh_fifo_threshold_on_int2_set",
    "lis3dhh_fifo_full_on_int2_set",
    "lis3dhh_fifo_ovr_on_int2_set",
    "lis3dhh_boot_on_int2_set",
    "lis3dhh_drdy_on_int2_set",
    "lis3dhh_pin_mode_set",
    "lis3dhh_fifo_set",
    "lis3dhh_fifo_block_spi_hs_set",
    "lis3dhh_fifo_watermark_set",
    "lis3dhh_fifo_mode_set",
    "lis3dhh_auto_add_inc_set" }

GetterNames ==
  { "lis3dhh_block_data_update_get",
    "lis3dhh_data_rate_get",
    "lis3dhh_temperature_raw_get",
    "lis3dhh_acceleration_raw_get",
    "lis3dhh_xl_data_ready_get",
    "lis3dhh_xl_data_ovr_get",
    "lis3dhh_device_id_get",
    "lis3dhh_reset_get",
    "lis3dhh_boot_get",
    "lis3dhh_self_test_get",
    "lis3dhh_filter_config_get",
    "lis3dhh_status_get",
    "lis3dhh_drdy_notification_mode_get",
    "lis3dhh_int1_mode_get",
    "lis3dhh_fifo_threshold_on_int1_get",
    "lis3dhh_fifo_full_on_int1_get",
    "lis3dhh_fifo_ovr_on_int1_get",
    "lis3dhh_boot_on_int1_get",
    "lis3dhh_drdy_on_int1_get",
    "lis3dhh_fifo_threshold_on_int2_get",
    "lis3dhh_fifo_full_on_int2_get",
    "lis3dhh_fifo_ovr_on_int2_get",
    "lis3dhh_boot_on_int2_get",
    "lis3dhh_drdy_on_int2_get",
    "lis3dhh_pin_mode_get",
    "lis3dhh_fifo_get",
    "lis3dhh_fifo_block_spi_hs_get",
    "lis3dhh_fifo_watermark_get",
    "lis3dhh_fifo_mode_get",
    "lis3dhh_fifo_status_get",
    "lis3dhh_fifo_full_flag_get",
    "lis3dhh_fifo_ovr_flag_get",
    "lis3dhh_fifo_fth_flag_get",
    "lis3dhh_auto_add_inc_get" }

EnumGetterNames ==
  { "lis3dhh_data_rate_get",
    "lis3dhh_self_test_get",
    "lis3dhh_filter_config_get",
    "lis3dhh_drdy_notification_mode_get",
    "lis3dhh_int1_mode_get",
    "lis3dhh_pin_mode_get",
    "lis3dhh_fifo_mode_get" }

\* the setter of the field each plain getter reads (lis3dhh_X_get, lis3dhh_X_set)
PlainSetterOf ==
  "lis3dhh_block_data_update_get" :> "lis3dhh_block_data_update_set"
  @@ "lis3dhh_reset_get" :> "lis3dhh_reset_set"
  @@ "lis3dhh_boot_get" :> "lis3dhh_boot_set"
  @@ "lis3dhh_fifo_threshold_on_int1_get" :> "lis3dhh_fifo_threshold_on_int1_set"
  @@ "lis3dhh_fifo_full_on_int1_get" :> "lis3dhh_fifo_full_on_int1_set"
  @@ "lis3dhh_fifo_ovr_on_int1_get" :> "lis3dhh_fifo_ovr_on_int1_set"
  @@ "lis3dhh_boot_on_int1_get" :> "lis3dhh_boot_on_int1_set"
  @@ "lis3dhh_drdy_on_int1_get" :> "lis3dhh_drdy_on_int1_set"
  @@ "lis3dhh_fifo_threshold_on_int2_get" :> "lis3dhh_fifo_threshold_on_int2_set"
  @@ "lis3dhh_fifo_full_on_int2_get" :> "lis3dhh_fifo_full_on_int2_set"
  @@ "lis3dhh_fifo_ovr_on_int2_get" :> "lis3dhh_fifo_ovr_on_int2_set"
  @@ "lis3dhh_boot_on_int2_get" :> "lis3dhh_boot_on_int2_set"
  @@ "lis3dhh_drdy_on_int2_get" :> "lis3dhh_drdy_on_int2_set"
  @@ "lis3dhh_fifo_get" :> "lis3dhh_fifo_set"
  @@ "lis3dhh_fifo_block_spi_hs_get" :> "lis3dhh_fifo_block_spi_hs_set"
  @@ "lis3dhh_fifo_watermark_get" :> "lis3dhh_fifo_watermark_set"
  @@ "lis3dhh_auto_add_inc_get" :> "lis3dhh_auto_add_inc_set"

\* the register each setter reads and writes and the bitfield it assigns
SetterField ==
  "lis3dhh_block_data_update_set" :> << LIS3DHH_CTRL_REG1, lis3dhh_ctrl_reg1_t.bdu >>
  @@ "lis3dhh_data_rate_set" :> << LIS3DHH_CTRL_REG1, lis3dhh_ctrl_reg1_t.norm_mod_en >>
  @@ "lis3dhh_reset_set" :> << LIS3DHH_CTRL_REG1, lis3dhh_ctrl_reg1_t.sw_reset >>
  @@ "lis3dhh_boot_set" :> << LIS3DHH_CTRL_REG1, lis3dhh_ctrl_reg1_t.boot >>
  @@ "lis3dhh_self_test_set" :> << LIS3DHH_CTRL_REG4, lis3dhh_ctrl_reg4_t.st >>
  @@ "lis3dhh_filter_config_set" :> << LIS3DHH_CTRL_REG4, lis3dhh_ctrl_reg4_t.dsp >>
  @@ "lis3dhh_drdy_notification_mode_set" :> << LIS3DHH_CTRL_REG1, lis3dhh_ctrl_reg1_t.drdy_pulse >>
  @@ "lis3dhh_int1_mode_set" :> << LIS3DHH_INT1_CTRL, lis3dhh_int1_ctrl_t.int1_ext >>
  @@ "lis3dhh_fifo_threshold_on_int1_set" :> << LIS3DHH_INT1_CTRL, lis3dhh_int1_ctrl_t.int1_fth >>
  @@ "lis3dhh_fifo_full_on_int1_set" :> << LIS3DHH_INT1_CTRL, lis3dhh_int1_ctrl_t.int1_fss5 >>
  @@ "lis3dhh_fifo_ovr_on_int1_set" :> << LIS3DHH_INT1_CTRL, lis3dhh_int1_ctrl_t.int1_ovr >>
  @@ "lis3dhh_boot_on_int1_set" :> << LIS3DHH_INT1_CTRL, lis3dhh_int1_ctrl_t.int1_boot >>
  @@ "lis3dhh_drdy_on_int1_set" :> << LIS3DHH_INT1_CTRL, lis3dhh_int1_ctrl_t.int1_drdy >>
  @@ "lis3dhh_fifo_threshold_on_int2_set" :> << LIS3DHH_INT2_CTRL, lis3dhh_int2_ctrl_t.int2_fth >>
  @@ "lis3dhh_fifo_full_on_int2_set" :> << LIS3DHH_INT2_CTRL, lis3dhh_int2_ctrl_t.int2_fss5 >>
  @@ "lis3dhh_fifo_ovr_on_int2_set" :> << LIS3DHH_INT2_CTRL, lis3dhh_int2_ctrl_t.int2_ovr >>
  @@ "lis3dhh_boot_on_int2_set" :> << LIS3DHH_INT2_CTRL, lis3dhh_int2_ctrl_t.int2_boot >>
  @@ "lis3dhh_drdy_on_int2_set" :> << LIS3DHH_INT2_CTRL, lis3dhh_int2_ctrl_t.int2_drdy >>
  @@ "lis3dhh_pin_mode_set" :> << LIS3DHH_CTRL_REG4, lis3dhh_ctrl_reg4_t.pp_od >>
  @@ "lis3dhh_fifo_set" :> << LIS3DHH_CTRL_REG4, lis3dhh_ctrl_reg4_t.fifo_en >>
  @@ "lis3dhh_fifo_block_spi_hs_set" :> << LIS3DHH_CTRL_REG5, lis3dhh_ctrl_reg5_t.fifo_spi_hs_on >>
  @@ "lis3dhh_fifo_watermark_set" :> << LIS3DHH_FIFO_CTRL, lis3dhh_fifo_ctrl_t.fth >>
  @@ "lis3dhh_fifo_mode_set" :> << LIS3DHH_FIFO_CTRL, lis3dhh_fifo_ctrl_t.fmode >>
  @@ "lis3dhh_auto_add_inc_set" :> << LIS3DHH_CTRL_REG1, lis3dhh_ctrl_reg1_t.if_add_inc >>

\* the values callers pass to each setter
SetterArgs ==
  "lis3dhh_block_data_update_set" :> U8Args
  @@ "lis3dhh_data_rate_set" :> lis3dhh_norm_mod_en_t
  @@ "lis3dhh_reset_set" :> U8Args
  @@ "lis3dhh_boot_set" :> U8Args
  @@ "lis3dhh_self_test_set" :> lis3dhh_st_t
  @@ "lis3dhh_filter_config_set" :> lis3dhh_dsp_t
  @@ "lis3dhh_drdy_notification_mode_set" :> lis3dhh_drdy_pulse_t
  @@ "lis3dhh_int1_mode_set" :> lis3dhh_int1_ext_t
  @@ "lis3dhh_fifo_threshold_on_int1_set" :> U8Args
  @@ "lis3dhh_fifo_full_on_int1_set" :> U8Args
  @@ "lis3dhh_fifo_ovr_on_int1_set" :> U8Args
  @@ "lis3dhh_boot_on_int1_set" :> U8Args
  @@ "lis3dhh_drdy_on_int1_set" :> U8Args
  @@ "lis3dhh_fifo_threshold_on_int2_set" :> U8Args
  @@ "lis3dhh_fifo_full_on_int2_set" :> U8Args
  @@ "lis3dhh_fifo_ovr_on_int2_set" :> U8Args
  @@ "lis3dhh_boot_on_int2_set" :> U8Args
  @@ "lis3dhh_drdy_on_int2_set" :> U8Args
  @@ "lis3dhh_pin_mode_set" :> lis3dhh_pp_od_t
  @@ "lis3dhh_fifo_set" :> U8Args
  @@ "lis3dhh_fifo_block_spi_hs_set" :> U8Args
  @@ "lis3dhh_fifo_watermark_set" :> U8Args
  @@ "lis3dhh_fifo_mode_set" :> lis3dhh_fmode_t
  @@ "lis3dhh_auto_add_inc_set" :> U8Args

-----------------------------------------------------------------------------
(* Setter calls of callers that share one context and are not serialized.  *)

\* the callers
Threads == {"A", "B"}

\* a caller that is in no call
IdleCaller == [pc |-> "idle", name |-> "none", val |-> 0, img |-> 0, ret |-> 0]

\* Caller t enters the setter `name` with val and the setter performs its
\* read: the register goes to the image on the caller's stack.  The setter
\* holds no lock: the other caller may run before this one's write.
setter_read(t, name, val) ==
  /\ thr[t].pc = "idle"
  /\ \E rd \in { set_field_read("ctx", SetterField[name][1], 0, << 0 >>) } :
       thr' = [thr EXCEPT ![t] =
                 [ pc   |-> IF rd.ret = 0 THEN "read" ELSE "done",
                   name |-> name, val |-> val, img |-> rd.data[1],
                   ret  |-> rd.ret ]]
  /\ sched' = Append(sched, << t, "read" >>)
  /\ UNCHANGED <<dev, pre, op, arg, ret, out, trace, lastSet, calls, ctxPassed,
                 transport>>

\* The setter caller t is in assigns its field in the image it read and
\* writes the image back; the call returns the status of the write.
setter_write(t) ==
  /\ thr[t].pc = "read"
  /\ \E wr \in { set_field_write("ctx", SetterField[thr[t].name][1],
                                 SetterField[thr[t].name][2], thr[t].val,
                                 thr[t].img, 0) } :
       /\ dev' = wr.dev
       /\ thr' = [thr EXCEPT ![t].pc = "done", ![t].ret = wr.ret]
  /\ sched' = Append(sched, << t, "write" >>)
  /\ UNCHANGED <<pre, op, arg, ret, out, trace, lastSet, calls, ctxPassed,
                 transport>>


-----------------------------------------------------------------------------
(* Initial states and specifications.                                      *)

NoCall ==
  /\ op = "none"
  /\ arg = << >>
  /\ ret = 0
  /\ out = << >>
  /\ trace = << >>
  /\ lastSet = [n \in SetterNames |-> << >>]
  /\ calls = 0
  /\ ctxPassed = "ctx"
  /\ thr = [t \in Threads |-> IdleCaller]
  /\ sched = << >>

\* Any accessor, against a device whose registers hold any content, behind a
\* transport that may fail.
Init ==
  /\ \E b \in ImageBytes : dev = [r \in Regs |-> b]
  /\ pre = dev
  /\ transport = "faulty"
  /\ NoCall

\* Sequences of accessor calls behind a transport that delivers every
\* transaction.
InitSeq ==
  /\ \E b \in SeqImageBytes : dev = [r \in Regs |-> b]
  /\ pre = dev
  /\ transport = "faithful"
  /\ NoCall

\* The raw getters, against output registers holding any sample.
InitData ==
  /\ \E lo \in TempBytes, hi \in TempBytes, blk \in AccelBlocks :
       dev = [r \in Regs |->
                IF r = LIS3DHH_OUT_TEMP_L THEN lo
                ELSE IF r = LIS3DHH_OUT_TEMP_H THEN hi
                ELSE IF r \in LIS3DHH_OUT_X_L_XL .. LIS3DHH_OUT_Z_H_XL
                     THEN blk[(r - LIS3DHH_OUT_X_L_XL) + 1]
                ELSE 0]
  /\ pre = dev
  /\ transport = "faulty"
  /\ NoCall

\* Two callers about to call setters through one context, behind a transport
\* that delivers every transaction.
InitRace ==
  /\ \E b \in ImageBytes : dev = [r \in Regs |-> b]
  /\ pre = dev
  /\ transport = "faithful"
  /\ NoCall

Next ==
  \/ \E val \in U8Args : lis3dhh_block_data_update_set(val)
  \/ lis3dhh_block_data_update_get
  \/ \E val \in lis3dhh_norm_mod_en_t : lis3dhh_data_rate_set(val)
  \/ lis3dhh_data_rate_get
  \/ lis3dhh_temperature_raw_get
  \/ lis3dhh_acceleration_raw_get
  \/ lis3dhh_xl_data_ready_get
  \/ lis3dhh_xl_data_ovr_get
  \/ lis3dhh_device_id_get
  \/ \E val \in U8Args : lis3dhh_reset_set(val)
  \/ lis3dhh_reset_get
  \/ \E val \in U8Args : lis3dhh_boot_set(val)
  \/ lis3dhh_boot_get
  \/ \E val \in lis3dhh_st_t : lis3dhh_self_test_set(val)
  \/ lis3dhh_self_test_get
  \/ \E val \in lis3dhh_dsp_t : lis3dhh_filter_config_set(val)
  \/ lis3dhh_filter_config_get
  \/ lis3dhh_status_get
  \/ \E val \in lis3dhh_drdy_pulse_t : lis3dhh_drdy_notification_mode_set(val)
  \/ lis3dhh_drdy_notification_mode_get
  \/ \E val \in lis3dhh_int1_ext_t : lis3dhh_int1_mode_set(val)
  \/ lis3dhh_int1_mode_get
  \/ \E val \in U8Args : lis3dhh_fifo_threshold_on_int1_set(val)
  \/ lis3dhh_fifo_threshold_on_int1_get
  \/ \E val \in U8Args : lis3dhh_fifo_full_on_int1_set(val)
  \/ lis3dhh_fifo_full_on_int1_get
  \/ \E val \in U8Args : lis3dhh_fifo_ovr_on_int1_set(val)
  \/ lis3dhh_fifo_ovr_on_int1_get
  \/ \E val \in U8Args : lis3dhh_boot_on_int1_set(val)
  \/ lis3dhh_boot_on_int1_get
  \/ \E val \in U8Args : lis3dhh_drdy_on_int1_set(val)
  \/ lis3dhh_drdy_on_int1_get
  \/ \E val \in U8Args : lis3dhh_fifo_threshold_on_int2_set(val)
  \/ lis3dhh_fifo_threshold_on_int2_get
  \/ \E val \in U8Args : lis3dhh_fifo_full_on_int2_set(val)
  \/ lis3dhh_fifo_full_on_int2_get
  \/ \E val \in U8Args : lis3dhh_fifo_ovr_on_int2_set(val)
  \/ lis3dhh_fifo_ovr_on_int2_get
  \/ \E val \in U8Args : lis3dhh_boot_on_int2_set(val)
  \/ lis3dhh_boot_on_int2_get
  \/ \E val \in U8Args : lis3dhh_drdy_on_int2_set(val)
  \/ lis3dhh_drdy_on_int2_get
  \/ \E val \in lis3dhh_pp_od_t : lis3dhh_pin_mode_set(val)
  \/ lis3dhh_pin_mode_get
  \/ \E val \in U8Args : lis3dhh_fifo_set(val)
  \/ lis3dhh_fifo_get
  \/ \E val \in U8Args : lis3dhh_fifo_block_spi_hs_set(val)
  \/ lis3dhh_fifo_block_spi_hs_get
  \/ \E val \in U8Args : lis3dhh_fifo_watermark_set(val)
  \/ lis3dhh_fifo_watermark_get
  \/ \E val \in lis3dhh_fmode_t : lis3dhh_fifo_mode_set(val)
  \/ lis3dhh_fifo_mode_get
  \/ lis3dhh_fifo_status_get
  \/ lis3dhh_fifo_full_flag_get
  \/ lis3dhh_fifo_ovr_flag_get
  \/ lis3dhh_fifo_fth_flag_get
  \/ \E val \in U8Args : lis3dhh_auto_add_inc_set(val)
  \/ lis3dhh_auto_add_inc_get
  \/ from_lsb_to_celsius
  \/ from_lsb_to_mg

NextData ==
  \/ lis3dhh_temperature_raw_get
  \/ lis3dhh_acceleration_raw_get
  \/ from_lsb_to_celsius
  \/ from_lsb_to_mg

\* The status getters and the boot setter against a device that changes its
\* registers between the calls.
NextDevice ==
  \/ lis3dhh_xl_data_ready_get
  \/ lis3dhh_xl_data_ovr_get
  \/ lis3dhh_status_get
  \/ lis3dhh_boot_get
  \/ \E val \in U8Args : lis3dhh_boot_set(val)
  \/ device_update

\* Two callers, each making one setter call through the same context, their
\* transport calls interleaved in every order.
NextRace ==
  \/ \E t \in Threads, name \in SetterNames :
       \E val \in SetterArgs[name] : setter_read(t, name, val)
  \/ \E t \in Threads : setter_write(t)

Spec == Init /\ [][Next]_vars

SpecSeq == InitSeq /\ [][Next]_vars

SpecData == InitData /\ [][NextData]_vars

SpecDevice == InitSeq /\ [][NextDevice]_vars

SpecRace == InitRace /\ [][NextRace]_vars

TypeOK ==
  /\ dev \in [Regs -> 0..255]
  /\ pre \in [Regs -> 0..255]
  /\ ret \in {0, -1} \cup FailCodes
  /\ calls \in 0..(MaxCalls + MaxSeq)
  /\ op \in SetterNames \cup GetterNames \cup {"none", "lis3dhh_from_lsb_to_celsius", "lis3dhh_from_lsb_to_mg"}
-----------------------------------------------------------------------------
(* Properties.                                                             *)

Accessors == SetterNames \cup GetterNames

\* bit k of a byte
Bit(byte, k) == (byte \div (2 ^ k)) % 2

\* bit positions of a bitfield <<lsb, width>>
FieldBits(f) == f[1] .. (f[1] + f[2] - 1)

\* value of a bitfield, bit by bit
FieldValue(byte, f) ==
  LET RECURSIVE Sum(_)
      Sum(j) == IF j = f[2] THEN 0
                ELSE (Bit(byte, f[1] + j) * (2 ^ j)) + Sum(j + 1)
  IN  Sum(0)

\* a 16-bit word read as two's complement
Signed16(w) == IF w >= 32768 THEN w - 65536 ELSE w

\* arithmetic right shift by 4 of a signed word (the floor of w / 16)
Asr4(w) == IF w >= 0 THEN w \div 16 ELSE -(((-w) + 15) \div 16)

\* status lis3dhh_read_reg gave the last accessor call: the transport's answer
\* to the read, or -1 when the call was given no context
ReadStatus == IF trace = << >> THEN -1 ELSE trace[1].status

\* the write transactions of the last call
Writes == { i \in 1..Len(trace) : trace[i].kind = "write" }

\* the enumerated fields: setter, getter, documented enumerators, default
EnumFields ==
  { [ set |-> "lis3dhh_data_rate_set", get |-> "lis3dhh_data_rate_get",
      vals |-> lis3dhh_norm_mod_en_t, dflt |-> LIS3DHH_POWER_DOWN ],
    [ set |-> "lis3dhh_self_test_set", get |-> "lis3dhh_self_test_get",
      vals |-> lis3dhh_st_t, dflt |-> LIS3DHH_ST_DISABLE ],
    [ set |-> "lis3dhh_filter_config_set", get |-> "lis3dhh_filter_config_get",
      vals |-> lis3dhh_dsp_t, dflt |-> LIS3DHH_LINEAR_PHASE_440Hz ],
    [ set |-> "lis3dhh_drdy_notification_mode_set",
      get |-> "lis3dhh_drdy_notification_mode_get",
      vals |-> lis3dhh_drdy_pulse_t, dflt |-> LIS3DHH_LATCHED ],
    [ set |-> "lis3dhh_int1_mode_set", get |-> "lis3dhh_int1_mode_get",
      vals |-> lis3dhh_int1_ext_t, dflt |-> LIS3DHH_PIN_AS_INTERRUPT ],
    [ set |-> "lis3dhh_pin_mode_set", get |-> "lis3dhh_pin_mode_get",
      vals |-> lis3dhh_pp_od_t, dflt |-> LIS3DHH_ALL_PUSH_PULL ],
    [ set |-> "lis3dhh_fifo_mode_set", get |-> "lis3dhh_fifo_mode_get",
      vals |-> lis3dhh_fmode_t, dflt |-> LIS3DHH_BYPASS_MODE ] }

\* C1: a setter whose initial read returned a non-zero status issued no write
\* transaction, left every device register as it was and returned the status
\* of the read.
C1_FailedReadShortCircuits ==
  (op \in SetterNames /\ ReadStatus # 0) =>
     /\ Writes = { }
     /\ dev = pre
     /\ ret = ReadStatus

C1_Witness ==
  /\ op \in SetterNames
  /\ Len(trace) = 1
  /\ trace[1].kind = "read"
  /\ trace[1].status \in FailCodes

\* C2: behind a faithful transport, the getter of an enumerated field returns
\* the documented enumerator its setter was last called with, whatever the
\* register held before.
C2_EnumRoundTrip ==
  \A e \in EnumFields :
    (op = e.get /\ lastSet[e.set] # << >> /\ lastSet[e.set][1] \in e.vals) =>
       (ret = 0 /\ out = lastSet[e.set])

C2_Witness ==
  /\ op = "lis3dhh_fifo_mode_get"
  /\ lastSet["lis3dhh_fifo_mode_set"] = << LIS3DHH_DYNAMIC_STREAM_MODE >>
  /\ out = << LIS3DHH_DYNAMIC_STREAM_MODE >>
  /\ transport = "faithful"

\* C3: a setter that returned 0 changed no bit outside its documented field:
\* the other bits of the owning register and every other register are as
\* before the call, and every transaction addressed the owning register.
C3_SetterFrame ==
  (op \in SetterNames /\ ret = 0) =>
     LET reg == DocField[op][1]
         f   == DocField[op][2]
     IN  /\ \A r \in Regs \ {reg} : dev[r] = pre[r]
         /\ \A k \in (0..7) \ FieldBits(f) : Bit(dev[reg], k) = Bit(pre[reg], k)
         /\ \A i \in 1..Len(trace) : trace[i].reg = reg

C3_Witness ==
  /\ op = "lis3dhh_self_test_set"
  /\ ret = 0
  /\ pre[LIS3DHH_CTRL_REG4] = 255
  /\ dev[LIS3DHH_CTRL_REG4] # 255

\* C4: an enumerated getter whose register holds a pattern of its field that
\* is no documented enumerator outputs the field's default, and its status is
\* the status of the read; the switch of every enumerated getter sends every
\* value that is no documented enumerator to the field's default.
C4_UndefinedPatternDefault ==
  \A e \in EnumFields :
    (op = e.get) =>
       /\ ret = ReadStatus
       /\ ( /\ ret = 0
            /\ FieldValue(pre[DocField[op][1]], DocField[op][2]) \notin e.vals )
          => out = << e.dflt >>
       /\ \A x \in (0..255) \ e.vals : EnumSwitch[op][x] = e.dflt

C4_Witness ==
  /\ op = "lis3dhh_fifo_mode_get"
  /\ ret = 0
  /\ FieldValue(pre[LIS3DHH_FIFO_CTRL], lis3dhh_fifo_ctrl_t.fmode) = 5
  /\ out = << LIS3DHH_BYPASS_MODE >>

\* C5: an enumerated getter whose read failed still stored an output, the
\* output is one of the field's enumerators (as is the switch's output for
\* every content of the image), and the getter returned the failure status of
\* the read.
C5_FailedReadStillNormalizes ==
  \A e \in EnumFields :
    (op = e.get /\ ReadStatus # 0) =>
       /\ Len(out) = 1
       /\ out[1] \in e.vals
       /\ ret = ReadStatus
       /\ \A x \in 0..255 : EnumSwitch[op][x] \in e.vals

C5_Witness ==
  /\ op = "lis3dhh_pin_mode_get"
  /\ ctxPassed = "ctx"
  /\ ret = 3
  /\ Len(out) = 1

\* C6: a getter returns the status of its read; a setter returns the status
\* of its read when that is non-zero and else the status of its write, so it
\* returns 0 exactly when both were 0.
C6_StatusVerbatim ==
  /\ op \in GetterNames => ret = ReadStatus
  /\ op \in SetterNames =>
       /\ ReadStatus # 0 => ret = ReadStatus
       /\ ReadStatus = 0 => (Len(trace) = 2 /\ ret = trace[2].status)
       /\ (ret = 0) <=> (Len(trace) = 2 /\ \A i \in 1..2 : trace[i].status = 0)

C6_Witness ==
  /\ op \in SetterNames
  /\ Len(trace) = 2
  /\ trace[1].status = 0
  /\ trace[2].status = -7
  /\ ret = -7

\* C7: lis3dhh_read_reg and lis3dhh_write_reg given a NULL context return -1
\* without a transaction, whatever the transport would have answered; an
\* accessor given a NULL context returns -1 and puts nothing on the bus, and
\* the device is untouched.
C7_NullContext ==
  (op \in Accessors /\ ctxPassed = "NULL") =>
     /\ ret = -1
     /\ trace = << >>
     /\ dev = pre
     /\ \A s \in {0} \cup FailCodes :
          LET reg == IF op \in DOMAIN DocField THEN DocField[op][1]
                                              ELSE LIS3DHH_WHO_AM_I
              rd  == lis3dhh_read_reg("NULL", reg, 1, s, << 0 >>)
              wr  == lis3dhh_write_reg("NULL", reg, << 0 >>, s)
          IN  /\ rd.ret = -1 /\ rd.bus = << >>
              /\ wr.ret = -1 /\ wr.bus = << >> /\ wr.dev = dev

C7_Witness ==
  /\ op \in SetterNames
  /\ ctxPassed = "NULL"
  /\ ret = -1

\* C8 as stated: the bytes low = 0x00, high = 0x19 of OUT_TEMP_L decode to the
\* raw value 25, which converts to 425/16 = 26.5625 degrees Celsius.
C8_Original ==
  ( /\ op = "lis3dhh_temperature_raw_get"
    /\ ret = 0
    /\ pre[LIS3DHH_OUT_TEMP_L] = 0
    /\ pre[LIS3DHH_OUT_TEMP_H] = 25 )
  => (out = << 25 >> /\ lis3dhh_from_lsb_to_celsius(out[1]) = << 425, 16 >>)

\* C8, amended: the bytes low = 0x00, high = 0x19 decode to the raw value 400
\* (0x1900 / 16), which converts to 800/16 = 50 degrees Celsius; the raw value
\* 25 comes from low = 0x90, high = 0x01 and converts to 425/16 = 26.5625.
C8_TemperatureExample ==
  /\ ( /\ op = "lis3dhh_temperature_raw_get"
       /\ ret = 0
       /\ pre[LIS3DHH_OUT_TEMP_L] = 0
       /\ pre[LIS3DHH_OUT_TEMP_H] = 25 ) => out = << 400 >>
  /\ ( /\ op = "lis3dhh_temperature_raw_get"
       /\ ret = 0
       /\ pre[LIS3DHH_OUT_TEMP_L] = 144
       /\ pre[LIS3DHH_OUT_TEMP_H] = 1 ) => out = << 25 >>
  /\ ( /\ op = "lis3dhh_from_lsb_to_celsius"
       /\ pre[LIS3DHH_OUT_TEMP_L] = 0
       /\ pre[LIS3DHH_OUT_TEMP_H] = 25
       /\ ret = 0 ) => (arg = << 400 >> /\ out = << 800, 16 >>)
  /\ ( /\ op = "lis3dhh_from_lsb_to_celsius"
       /\ arg = << 25 >> ) => out = << 425, 16 >>

C8_Witness ==
  /\ op = "lis3dhh_from_lsb_to_celsius"
  /\ pre[LIS3DHH_OUT_TEMP_L] = 0
  /\ pre[LIS3DHH_OUT_TEMP_H] = 25
  /\ ret = 0
  /\ out = << 800, 16 >>

\* the word the temperature output registers held when the last call started
TempWord ==
  Signed16((pre[LIS3DHH_OUT_TEMP_H] * 256) + pre[LIS3DHH_OUT_TEMP_L])

\* C9 as stated: the raw temperature is the signed little-endian word shifted
\* right arithmetically by 4, for every pair of bytes.
C9_Original ==
  (op = "lis3dhh_temperature_raw_get" /\ ret = 0) => out = << Asr4(TempWord) >>

\* C9, amended: the raw temperature is the signed little-endian word divided
\* by 16 with the quotient truncated toward zero: the arithmetic shift by 4
\* when the word is non-negative or its low 4 bits are zero, one more than
\* that shift when the word is negative with non-zero low 4 bits.
C9_TemperatureDecode ==
  (op = "lis3dhh_temperature_raw_get" /\ ret = 0) =>
     out = << IF TempWord < 0 /\ TempWord % 16 # 0
              THEN Asr4(TempWord) + 1
              ELSE Asr4(TempWord) >>

C9_Witness ==
  /\ op = "lis3dhh_temperature_raw_get"
  /\ ret = 0
  /\ pre[LIS3DHH_OUT_TEMP_L] = 255
  /\ pre[LIS3DHH_OUT_TEMP_H] = 255
  /\ out = << 0 >>

\* the 6 bytes the acceleration output block held when the last call started
AccelBlock == [ i \in 1..6 |-> pre[LIS3DHH_OUT_X_L_XL + (i - 1)] ]

\* C10: the raw acceleration is read in one block of 6 bytes at OUT_X_L_XL and
\* each axis X, Y, Z is the signed 16-bit word of its own two bytes, low byte
\* first, unshifted; the bytes 00 01 00 02 00 03 give 256, 512, 768.
C10_AccelerationDecode ==
  (op = "lis3dhh_acceleration_raw_get" /\ ret = 0) =>
     /\ Len(trace) = 1
     /\ trace[1].kind = "read"
     /\ trace[1].reg = LIS3DHH_OUT_X_L_XL
     /\ trace[1].len = 6
     /\ Len(out) = 3
     /\ \A i \in 1..3 :
          out[i] = Signed16((AccelBlock[2 * i] * 256) + AccelBlock[(2 * i) - 1])
     /\ AccelBlock = << 0, 1, 0, 2, 0, 3 >> => out = << 256, 512, 768 >>

C10_Witness ==
  /\ op = "lis3dhh_acceleration_raw_get"
  /\ ret = 0
  /\ AccelBlock = << 0, 1, 0, 2, 0, 3 >>
  /\ out = << 256, 512, 768 >>


\* C11: behind a transport that delivers every transaction, a setter called
\* again with the same value leaves every device register as its first call
\* left it, and a getter called again changes no device register and stores
\* the same output with the same status.
C11_Idempotent ==
  [][ (transport = "faithful" /\ calls' = calls + 1 /\ op' = op) =>
        /\ (op \in SetterNames /\ arg' = arg) => (dev' = dev /\ ret' = 0)
        /\ (op \in GetterNames) => (dev' = dev /\ out' = out /\ ret' = ret) ]_vars

\* the second of two calls of lis3dhh_fifo_watermark_set(1): the first is the
\* only call that can have brought the threshold from its initial 0 or 5 to 1
C11_Witness ==
  /\ transport = "faithful"
  /\ calls = 2
  /\ op = "lis3dhh_fifo_watermark_set"
  /\ arg = << 1 >>
  /\ FieldValue(pre[LIS3DHH_FIFO_CTRL], lis3dhh_fifo_ctrl_t.fth) = 1
  /\ \A n \in SetterNames \ {op} : lastSet[n] = << >>
  /\ dev = pre

\* the register and the number of bytes each getter is to read in its one
\* transaction
GetterBlock ==
  [ n \in GetterNames |->
      CASE n = "lis3dhh_temperature_raw_get" -> << LIS3DHH_OUT_TEMP_L, 2 >>
        [] n = "lis3dhh_acceleration_raw_get" -> << LIS3DHH_OUT_X_L_XL, 6 >>
        [] n = "lis3dhh_device_id_get" -> << LIS3DHH_WHO_AM_I, 1 >>
        [] n = "lis3dhh_status_get" -> << LIS3DHH_STATUS, 1 >>
        [] n = "lis3dhh_fifo_status_get" -> << LIS3DHH_FIFO_SRC, 1 >>
        [] OTHER -> << DocField[n][1], 1 >> ]

\* C12: a getter call issued exactly one read transaction, of its register or
\* fixed block, whether that read succeeded or failed (a call given no
\* context is rejected before any bus access and issued none, C7); no getter
\* call issued a write transaction or changed a device register.
C12_GetterReadOnly ==
  (op \in GetterNames) =>
     /\ Writes = { }
     /\ dev = pre
     /\ ctxPassed = "ctx" =>
          /\ Len(trace) = 1
          /\ trace[1].kind = "read"
          /\ << trace[1].reg, trace[1].len >> = GetterBlock[op]
     /\ ctxPassed = "NULL" => trace = << >>

C12_Witness ==
  /\ op = "lis3dhh_temperature_raw_get"
  /\ ctxPassed = "ctx"
  /\ Len(trace) = 1
  /\ trace[1].len = 2
  /\ trace[1].status = 3
  /\ ret = 3
  /\ dev = pre

\* the transactions of a setter call that read and, if the read returned 0,
\* wrote one byte of the owning register, once each
SingleReadThenWrite ==
  /\ Len(trace) \in {1, 2}
  /\ trace[1] = [ kind |-> "read", reg |-> DocField[op][1], len |-> 1,
                  status |-> trace[1].status ]
  /\ trace[1].status # 0 => (Len(trace) = 1 /\ ret = trace[1].status)
  /\ trace[1].status = 0 =>
       /\ Len(trace) = 2
       /\ trace[2] = [ kind |-> "write", reg |-> DocField[op][1], len |-> 1,
                       status |-> trace[2].status ]
       /\ ret = trace[2].status
       /\ trace[2].status # 0 => dev = pre

\* C13: the transport trace of a setter call is one 1-byte read of the owning
\* register followed, only when the read returned 0, by one 1-byte write to
\* the same address; nothing is repeated, a failed write ends the call with
\* the write's status (a call given no context is rejected before any bus
\* access and its trace is empty, C7); every accessor call makes at most two
\* transport calls, a getter at most one.
C13_NoRetry ==
  /\ (op \in SetterNames /\ ctxPassed = "ctx") => SingleReadThenWrite
  /\ (op \in SetterNames /\ ctxPassed = "NULL") => trace = << >>
  /\ op \in GetterNames => Len(trace) <= 1
  /\ op \in Accessors => Len(trace) <= 2

C13_Witness ==
  /\ op = "lis3dhh_fifo_block_spi_hs_set"
  /\ Len(trace) = 2
  /\ trace[1].status = 0
  /\ trace[2].kind = "write"
  /\ trace[2].status = 3
  /\ ret = 3

\* what a getter that read its register successfully has to store, given the
\* content image of the device registers
FreshOutput(n, image) ==
  IF n \in {"lis3dhh_device_id_get", "lis3dhh_status_get", "lis3dhh_fifo_status_get"}
  THEN << image[GetterBlock[n][1]] >>
  ELSE IF n \in EnumGetterNames
  THEN << EnumSwitch[n][FieldValue(image[DocField[n][1]], DocField[n][2])] >>
  ELSE << FieldValue(image[DocField[n][1]], DocField[n][2]) >>

\* the getters of one register or field
ByteGetters ==
  GetterNames \ {"lis3dhh_temperature_raw_get", "lis3dhh_acceleration_raw_get"}

\* C14: no register content is kept between calls: every getter call that
\* returns 0 stores what the device holds when that call is made, whatever an
\* earlier call reported and whatever the device or a setter changed since,
\* and the byte a setter call writes is the content the device holds when
\* that call is made with the field replaced.
C14_NoCache ==
  [][ (calls' = calls + 1 /\ ret' = 0) =>
        /\ op' \in ByteGetters => out' = FreshOutput(op', dev)
        /\ op' \in SetterNames =>
             LET reg == DocField[op'][1]
                 f   == DocField[op'][2]
             IN  /\ FieldValue(dev'[reg], f) = arg'[1] % (2 ^ f[2])
                 /\ \A k \in (0..7) \ FieldBits(f) :
                      Bit(dev'[reg], k) = Bit(dev[reg], k) ]_vars

\* the second of two getter calls: STATUS was 0 at the first call (no setter
\* has run, the device changes a register only after a call), the device then
\* raised the data-ready flags and the second call reports them
C14_Witness ==
  /\ calls = 2
  /\ op = "lis3dhh_xl_data_ready_get"
  /\ \A n \in SetterNames : lastSet[n] = << >>
  /\ dev[LIS3DHH_WHO_AM_I] = 0
  /\ pre[LIS3DHH_STATUS] = 15
  /\ out = << 1 >>
  /\ ret = 0

\* the single-precision number res = <<m, e>> (m * 2^e, 24 significant bits)
\* differs from x = n * 0.076 = n * 19 / 250 by at most |x| * 2^-23: with
\* X = 19 |n| 2^(-1-e) = 125 |x| 2^-e, |125 |m| - X| <= X / 2^23
WithinRounding(n, res) ==
  LET a == IF n < 0 THEN -n ELSE n
      m == IF res[1] < 0 THEN -res[1] ELSE res[1]
      s == (-1) - res[2]
      X == 19 * a * (2 ^ s)
  IN  /\ (n < 0) <=> (res[1] < 0)
      /\ m \in (2 ^ 23) .. ((2 ^ 24) - 1)
      /\ s \in 10 .. 26
      /\ ((125 * m) - X) \in (-(X \div (2 ^ 23))) .. (X \div (2 ^ 23))

\* raw accelerations across the int16_t range
MgSamples ==
  { n \in ((-32768) .. 32767) \ {0} : n % 331 = 0 \/ n \in {-32768, -1, 1, 32767} }

\* C15: the conversions put nothing on the bus and touch no register.  The
\* acceleration conversion returns the single-precision product of lsb and
\* 0.076f, which is lsb * 0.076 to a relative error of at most 2^-23: 256, 512
\* and 768 give 10200547 * 2^-19, 10200547 * 2^-18 and 15300820 * 2^-18, that
\* is 19.456, 38.912 and 58.368 with an error below 2^-17.  The temperature
\* conversion returns lsb / 16 + 25 exactly.
C15_Conversions ==
  /\ (op = "lis3dhh_from_lsb_to_mg") =>
       /\ trace = << >>
       /\ dev = pre
       /\ out = lis3dhh_from_lsb_to_mg(arg[1])
       /\ arg[1] = 0 => out = << 0, 0 >>
       /\ arg[1] # 0 => WithinRounding(arg[1], out)
       /\ arg[1] = 256 => out = << 10200547, -19 >>
       /\ arg[1] = 512 => out = << 10200547, -18 >>
       /\ arg[1] = 768 =>
            /\ out = << 15300820, -18 >>
            /\ \A n \in MgSamples : WithinRounding(n, lis3dhh_from_lsb_to_mg(n))
  /\ (op = "lis3dhh_from_lsb_to_celsius") =>
       /\ trace = << >>
       /\ dev = pre
       /\ out[2] = 16
       /\ out[1] = arg[1] + (25 * 16)

C15_Witness ==
  /\ op = "lis3dhh_from_lsb_to_mg"
  /\ arg = << 768 >>
  /\ out = << 15300820, -18 >>
  /\ pre[LIS3DHH_OUT_Z_H_XL] = 3

\* the getters that decode a field or a raw value from a local image
DecodingGetters ==
  GetterNames \ {"lis3dhh_device_id_get", "lis3dhh_status_get", "lis3dhh_fifo_status_get"}

\* values a decoding getter can store: a value of its field, an enumerator of
\* its switch, a signed 16-bit raw value
OutputRange(n) ==
  IF n \in {"lis3dhh_temperature_raw_get", "lis3dhh_acceleration_raw_get"}
  THEN (-32768) .. 32767
  ELSE IF n \in EnumGetterNames
  THEN { EnumSwitch[n][x] : x \in 0 .. ((2 ^ DocField[n][2][2]) - 1) }
  ELSE 0 .. ((2 ^ DocField[n][2][2]) - 1)

\* C16: a getter that decodes a field or a raw value stored its output on
\* every call, also when its read returned a non-zero status (one value, three
\* for the acceleration, each a value its decoding can produce), while a
\* setter whose read returned non-zero did nothing more: no write, no change
\* of the device.
C16_GettersDoNotShortCircuit ==
  /\ (op \in DecodingGetters) =>
       /\ Len(out) = IF op = "lis3dhh_acceleration_raw_get" THEN 3 ELSE 1
       /\ \A i \in 1..Len(out) : out[i] \in OutputRange(op)
       /\ ret = ReadStatus
  /\ (op \in SetterNames /\ ReadStatus # 0) =>
       /\ Len(trace) <= 1
       /\ out = << >>
       /\ dev = pre

C16_Witness ==
  /\ op = "lis3dhh_block_data_update_get"
  /\ ctxPassed = "ctx"
  /\ trace[1].status = -7
  /\ ret = -7
  /\ Len(out) = 1

\* the byte every register held before the first call: the explored images
\* are uniform and no accessor writes WHO_AM_I
InitialByte == dev[LIS3DHH_WHO_AM_I]

\* value of a bitfield <<lsb, width>> of byte b
FieldOf(b, f) == (b \div (2 ^ f[1])) % (2 ^ f[2])

\* byte b with the bitfield f holding v
WithField(b, f, v) == (b - (FieldOf(b, f) * (2 ^ f[1]))) + (v * (2 ^ f[1]))

\* the setters that have been called (every call succeeds behind a faithful
\* transport)
CalledSetters == { n \in SetterNames : lastSet[n] # << >> }

\* byte b with the field of every setter of S holding the value of that
\* setter's last call, as a field of that width takes it
RECURSIVE WithLastValues(_, _)
WithLastValues(b, S) ==
  IF S = { } THEN b
  ELSE LET n == CHOOSE s \in S : TRUE
           f == DocField[n][2]
       IN  WithLastValues(WithField(b, f, lastSet[n][1] % (2 ^ f[2])), S \ {n})

\* C17: behind a transport that delivers every transaction, after any
\* sequence of serialized setter calls every register is its initial content
\* with the field of each setter that was called holding the value of the
\* last call of that setter (as the field takes it, modulo its width): every
\* other field and bit has its initial value, and no setter undoes another.
C17_LastSetterWins ==
  (transport = "faithful" /\ op \in SetterNames) =>
     LET called == CalledSetters
     IN  \A r \in Regs :
           dev[r] = WithLastValues(InitialByte,
                                   { n \in called : DocField[n][1] = r })

\* lis3dhh_block_data_update_set(1) then lis3dhh_auto_add_inc_set(1) on a
\* CTRL_REG1 that held 0
C17_Witness ==
  /\ transport = "faithful"
  /\ calls = 2
  /\ op = "lis3dhh_auto_add_inc_set"
  /\ lastSet["lis3dhh_block_data_update_set"] = << 1 >>
  /\ lastSet["lis3dhh_auto_add_inc_set"] = << 1 >>
  /\ dev[LIS3DHH_WHO_AM_I] = 0
  /\ dev[LIS3DHH_CTRL_REG1] = 65

\* both callers have returned from their setter calls
BothReturned == \A t \in Threads : thr[t].pc = "done"

\* both reads were served before either write
ReadsBeforeWrites ==
  /\ Len(sched) = 4
  /\ sched[1][2] = "read" /\ sched[2][2] = "read"
  /\ sched[3][2] = "write" /\ sched[4][2] = "write"

\* one call ran to its end before the other started
Serialized ==
  /\ Len(sched) = 4
  /\ sched[1][2] = "read" /\ sched[2] = << sched[1][1], "write" >>
  /\ sched[3][2] = "read" /\ sched[4] = << sched[3][1], "write" >>

\* the field, as it is in byte b, of the setter caller t is in
CallerField(t, b) == FieldValue(b, DocField[thr[t].name][2])

\* the setters of the two callers target different fields of one register
SameRegisterOtherField(x, y) ==
  /\ DocField[thr[x].name][1] = DocField[thr[y].name][1]
  /\ thr[x].name # thr[y].name

\* C18: two setter calls on different fields of the same register, made
\* through the same context so that both reads are served before either
\* write, both return 0, and the second write puts the field of the first
\* writer back to the value it had before the two calls while the second
\* writer's field holds its value: the first update is lost.  No step of
\* either call waits for the other.  When the calls are serialized, both
\* fields hold the values passed.
C18_LostUpdate ==
  (BothReturned /\ Len(sched) = 4) =>
     LET x   == sched[3][1]
         y   == sched[4][1]
         reg == DocField[thr[y].name][1]
     IN  /\ \A t \in Threads : thr[t].ret = 0
         /\ (ReadsBeforeWrites /\ SameRegisterOtherField(x, y)) =>
              /\ CallerField(x, dev[reg]) = CallerField(x, thr[x].img)
              /\ CallerField(y, dev[reg]) =
                   thr[y].val % (2 ^ DocField[thr[y].name][2][2])
              /\ thr[x].img = thr[y].img
         /\ (Serialized /\ SameRegisterOtherField(x, y)) =>
              \A t \in Threads :
                CallerField(t, dev[reg]) =
                  thr[t].val % (2 ^ DocField[thr[t].name][2][2])

\* lis3dhh_self_test_set(LIS3DHH_ST_POSITIVE) and lis3dhh_fifo_set(1) on a
\* CTRL_REG4 holding 0, both reads first, the self-test write first: fifo_en
\* is set and st is back to 0
C18_Witness ==
  /\ BothReturned
  /\ ReadsBeforeWrites
  /\ sched[3][1] = "A"
  /\ thr["A"].name = "lis3dhh_self_test_set" /\ thr["A"].val = LIS3DHH_ST_POSITIVE
  /\ thr["B"].name = "lis3dhh_fifo_set" /\ thr["B"].val = 1
  /\ thr["A"].img = 0 /\ thr["B"].img = 0
  /\ thr["A"].ret = 0 /\ thr["B"].ret = 0
  /\ dev[LIS3DHH_CTRL_REG4] = 2

\* C19: a setter checks no range: behind a transport that delivers every
\* transaction it returns 0 for every val and leaves val mod 2^w in its field
\* of width w, the other bits of the register as they were; the getter of a
\* plain field then returns val mod 2^w, which is val exactly when val < 2^w.
C19_NoRangeCheck ==
  (transport = "faithful") =>
     /\ (op \in SetterNames) =>
          LET reg == DocField[op][1]
          IN  /\ ret = 0
              /\ FieldOf(dev[reg], DocField[op][2]) = arg[1] % (2 ^ DocField[op][2][2])
              /\ dev[reg] = WithField(pre[reg], DocField[op][2],
                                      arg[1] % (2 ^ DocField[op][2][2]))
     /\ (op \in DOMAIN PlainSetterOf /\ lastSet[PlainSetterOf[op]] # << >>) =>
          LET val == lastSet[PlainSetterOf[op]][1]
              w   == DocField[op][2][2]
          IN  /\ ret = 0
              /\ out = << val % (2 ^ w) >>
              /\ (out = << val >>) <=> (0 <= val /\ val < 2 ^ w)

\* lis3dhh_fifo_watermark_set(254) then lis3dhh_fifo_watermark_get: 254 mod 32
C19_Witness ==
  /\ transport = "faithful"
  /\ op = "lis3dhh_fifo_watermark_get"
  /\ lastSet["lis3dhh_fifo_watermark_set"] = << 254 >>
  /\ ret = 0
  /\ out = << 30 >>

\* the getters of a whole register and the register each is to read
WholeRegister ==
  "lis3dhh_device_id_get" :> LIS3DHH_WHO_AM_I
  @@ "lis3dhh_status_get" :> LIS3DHH_STATUS
  @@ "lis3dhh_fifo_status_get" :> LIS3DHH_FIFO_SRC

\* C20: lis3dhh_device_id_get, lis3dhh_status_get and lis3dhh_fifo_status_get
\* issued a single 1-byte read of WHO_AM_I, STATUS and FIFO_SRC and decoded
\* nothing: after a read that returned 0 the output is the register byte as
\* it was, after a read that returned non-zero nothing was stored in the
\* output, where a field getter stores a value all the same.
C20_WholeRegisterGetters ==
  /\ (op \in DOMAIN WholeRegister) =>
       /\ ret = ReadStatus
       /\ Len(trace) <= 1
       /\ \A i \in 1..Len(trace) :
            trace[i] = [ kind |-> "read", reg |-> WholeRegister[op], len |-> 1,
                         status |-> ret ]
       /\ ctxPassed = "ctx" => Len(trace) = 1
       /\ ret = 0 => out = << pre[WholeRegister[op]] >>
       /\ ret # 0 => out = << >>
       /\ dev = pre
  /\ (op \in GetterNames \ DOMAIN WholeRegister /\ ret # 0) => out # << >>

C20_Witness ==
  /\ op = "lis3dhh_fifo_status_get"
  /\ ret = 0
  /\ Len(trace) = 1
  /\ pre[LIS3DHH_FIFO_SRC] = 165
  /\ out = << 165 >>
=============================================================================
